---- MODULE Spec2Model ----
(***************************************************************************)
(* GreenCart Logistics: the simulation controller (runSimulation,          *)
(* getSimulationStatus, performDeliverySimulation and its helpers) and the *)
(* model methods it calls.                                                 *)
(*                                                                         *)
(* Number representation (all quantities are integers):                    *)
(*   hours                 are held in minutes        (x 60)               *)
(*   rating, multipliers   are held in tenths         (x 10)               *)
(*   distance              is held in tenths of a km  (x 10)               *)
(*   suitability scores    are held in sixtieths      (x 60)               *)
(*   2-decimal figures     are held in hundredths     (x 100)              *)
(*   fuel cost per km      is held in tenths          (x 10)               *)
(*   a delivery bonus      is held in fiftieths       (x 50)               *)
(*   unrounded money       is held in 300ths          (x 300)              *)
(*   dates                 are held in minutes since an epoch              *)
(* An optional value (a body field that may be missing) is a sequence of   *)
(* length 0 or 1.                                                          *)
(***************************************************************************)
EXTENDS Integers, Sequences, FiniteSets, TLC

\* ------------------------------------------------------------------ bounds
NumReq        == 2   \* concurrent HTTP requests to POST /api/simulation/run
NumDrivers    == 2   \* driver documents in the database
NumOrders     == 2   \* order documents in the database
MaxClock      == 1   \* last value of the wall clock (minutes)
MaxSimDrivers == 3   \* engine alone: driver documents to draw the drivers from
MaxSimOrders  == 4   \* engine alone: order documents to draw the orders from
MaxHoursLate  == 12  \* a method alone: the latest delivery, in hours after schedule
NumDeliverReq == 2   \* concurrent HTTP requests to PUT /api/orders/:id/deliver

Req       == 1..NumReq
DriverIds == 1..NumDrivers
OrderIds  == 1..NumOrders

None      == <<>>
Some(v)   == <<v>>
Val(opt)  == opt[1]

\* ---------------------------------------------------------- the documents
Null == [isNull |-> TRUE]

\* A Driver document (only the paths the controllers read).  Driver 1 is
\* far into a long shift and poorly rated, drivers 2 and 3 differ in their
\* rate only, the others are seven hours into their shift.
DriverDoc(i) ==
  [_id               |-> i,
   currentShiftHours |-> CASE i = 1 -> 780 [] i = 2 -> 200 [] i = 3 -> 200 [] OTHER -> 420,
   rating            |-> CASE i = 1 -> 10  [] i = 2 -> 49  [] i = 3 -> 49  [] OTHER -> 42,
   hourlyRate        |-> CASE i = 1 -> 150 [] i = 2 -> 160 [] i = 3 -> 150 [] OTHER -> 140]

\* A Route document.
RouteDoc(i) ==
  [routeId          |-> i,
   distance         |-> CASE i = 1 -> 155    [] i = 2 -> 123      [] OTHER -> 228,
   trafficLevel     |-> CASE i = 1 -> "High" [] i = 2 -> "Medium" [] i = 3 -> "Low" [] OTHER -> "Jam",
   baseTime         |-> CASE i = 1 -> 45     [] i = 2 -> 35       [] OTHER -> 55,
   fuelCostPerKm    |-> 85,
   tollCharges      |-> CASE i = 1 -> 25     [] i = 2 -> 0        [] OTHER -> 40,
   averageCompletionTime |-> CASE i = 1 -> 52 [] i = 2 -> 38 [] OTHER -> 58,
   totalCompletions |-> CASE i = 1 -> 156    [] i = 2 -> 203      [] OTHER -> 89]

\* The route an order document refers to; 0 stands for a reference that
\* populate() cannot resolve.
AssignedRouteId(i) == CASE i = 1 -> 2 [] i = 2 -> 1 [] i = 3 -> 3 [] i = 4 -> 0 [] OTHER -> 4

\* An Order document with status "pending", as the order query returns it:
\* assignedRoute is the populated Route document, or null.
OrderDoc(i) ==
  [orderId               |-> i,
   valueRs               |-> CASE i = 1 -> 8500 [] i = 2 -> 8500 [] i = 3 -> 25000 [] OTHER -> 15000,
   priority              |-> CASE i = 1 -> "medium" [] i = 2 -> "standard" [] i = 3 -> "urgent"
                               [] i = 4 -> "high" [] OTHER -> "low",
   assignedRoute         |-> IF AssignedRouteId(i) = 0 THEN Null ELSE RouteDoc(AssignedRouteId(i)),
   assignedDriver        |-> None,
   scheduledDeliveryTime |-> CASE i = 1 -> 180 [] i = 2 -> 60 [] i = 3 -> 240 [] OTHER -> 120,
   status                |-> "pending",
   deliveryTimestamp     |-> None,
   isHighValue           |-> (CASE i = 1 -> 8500 [] i = 2 -> 8500 [] i = 3 -> 25000 [] OTHER -> 15000) >= 10000]

\* ------------------------------------------------------- model methods
\* Math.round(num / den) for den > 0: the nearest integer, halves up.
Round(num, den) == (2 * num + den) \div (2 * den)

Min(a, b) == IF a <= b THEN a ELSE b

\* The thresholds with exclusive upper bounds.
GetFatigueFactorExclusive(driver) ==
  IF driver.currentShiftHours < 4 * 60 THEN 10
  ELSE IF driver.currentShiftHours < 8 * 60 THEN 11
  ELSE IF driver.currentShiftHours < 12 * 60 THEN 13
  ELSE 15

\* driverSchema.methods.getFatigueFactor (x 10)
GetFatigueFactor(driver) ==
  IF driver.currentShiftHours <= 4 * 60 THEN 10
  ELSE IF driver.currentShiftHours <= 8 * 60 THEN 11
  ELSE IF driver.currentShiftHours <= 12 * 60 THEN 13
  ELSE 15

\* A table that gives High the multiplier of Medium.
GetTrafficMultiplierHighAsMedium(route) ==
  CASE route.trafficLevel = "Low"    -> 10
    [] route.trafficLevel = "Medium" -> 12
    [] route.trafficLevel = "High"   -> 12
    [] OTHER                         -> 10

\* routeSchema.methods.getTrafficMultiplier (x 10)
GetTrafficMultiplier(route) ==
  CASE route.trafficLevel = "Low"    -> 10
    [] route.trafficLevel = "Medium" -> 12
    [] route.trafficLevel = "High"   -> 15
    [] OTHER                         -> 10

\* routeSchema.methods.getEstimatedTime (minutes)
GetEstimatedTime(route, driverFatigueFactor) ==
  Round(route.baseTime * GetTrafficMultiplier(route) * driverFatigueFactor, 100)

\* routeSchema.methods.calculateFuelCost (x 100)
CalculateFuelCost(route) == route.distance * route.fuelCostPerKm + route.tollCharges * 100

Max(a, b) == IF a >= b THEN a ELSE b

\* Math.ceil(num / den) for den > 0
Ceil(num, den) == -((-num) \div den)

\* orderSchema.methods.isLate; a date that is null is None
IsLate(order) ==
  IF order.deliveryTimestamp = None THEN FALSE
  ELSE Val(order.deliveryTimestamp) > order.scheduledDeliveryTime

\* The bonus without the floor of the last line.
CalculateDeliveryBonusNoFloor(order) ==
  (IF order.isHighValue THEN order.valueRs ELSE 0)
  + (IF order.status = "delivered" /\ ~IsLate(order) THEN 100 * 50 ELSE 0)
  - (IF order.status = "delivered" /\ IsLate(order)
     THEN Ceil(Val(order.deliveryTimestamp) - order.scheduledDeliveryTime, 60) * 50 * 50
     ELSE 0)

\* orderSchema.methods.calculateDeliveryBonus (x 50): 2% of the value is
\* valueRs fiftieths; hoursLate is the lateness in minutes over 60, up.
CalculateDeliveryBonus(order) ==
  LET highValue == IF order.isHighValue THEN order.valueRs ELSE 0
      onTime    == IF order.status = "delivered" /\ ~IsLate(order) THEN 100 * 50 ELSE 0
      hoursLate == IF order.status = "delivered" /\ IsLate(order)
                   THEN Ceil(Val(order.deliveryTimestamp) - order.scheduledDeliveryTime, 60)
                   ELSE 0
  IN  Max(highValue + onTime - hoursLate * 50 * 50, -500 * 50)

\* ------------------------------------------------ the simulation engine
\* A JavaScript number that may be NaN, and the value of a property read
\* that may be undefined: a sequence holding the number, or the empty one.
NaN       == <<>>
Undefined == <<>>
Number(n) == <<n>>

\* record[field], undefined when the record has no such property
Get(record, field) == IF field \in DOMAIN record THEN Number(record[field]) ELSE Undefined

\* a + b, NaN when either is NaN or undefined
Plus(a, b) == IF a = NaN \/ b = NaN THEN NaN ELSE Number(a[1] + b[1])

\* The comparator handed to orders.sort (lines 146-153).
PriorityWeight(priority) ==
  CASE priority = "urgent" -> 4
    [] priority = "high"   -> 3
    [] priority = "medium" -> 2
    [] priority = "low"    -> 1
    [] OTHER               -> 2

\* A comparator that never answers 0: orders equal in both keys are swapped.
CompareOrdersNoTie(a, b) ==
  LET aPriority == PriorityWeight(a.priority)
      bPriority == PriorityWeight(b.priority)
  IN  IF aPriority # bPriority THEN bPriority - aPriority
      ELSE IF b.valueRs # a.valueRs THEN b.valueRs - a.valueRs
      ELSE 1

CompareOrders(a, b) ==
  LET aPriority == PriorityWeight(a.priority)
      bPriority == PriorityWeight(b.priority)
  IN  IF aPriority # bPriority THEN bPriority - aPriority
      ELSE b.valueRs - a.valueRs

\* Array.prototype.sort with a comparator: a stable sort.  An element is
\* placed behind every element the comparator does not put after it.
RECURSIVE InsertOrder(_, _)
InsertOrder(sorted, e) ==
  IF sorted = <<>> THEN <<e>>
  ELSE IF CompareOrders(Head(sorted), e) <= 0
       THEN <<Head(sorted)>> \o InsertOrder(Tail(sorted), e)
       ELSE <<e>> \o sorted

RECURSIVE SortOrdersFrom(_, _, _)
SortOrdersFrom(orders, i, acc) ==
  IF i > Len(orders) THEN acc
  ELSE SortOrdersFrom(orders, i + 1, InsertOrder(acc, orders[i]))

SortOrders(orders) == SortOrdersFrom(orders, 1, <<>>)

\* calculateDriverScore (x 60)
CalculateDriverScore(driverState, order, route) ==
  LET driver        == driverState.driver
      fatigueFactor == GetFatigueFactor(driver)
  IN  driver.rating * 120
      - (fatigueFactor - 10) * 180
      + (8 * 60 - driverState.currentHours) * 5
      + Min(route.totalCompletions * 6, 10 * 60)
      - (IF order.isHighValue /\ driver.rating < 45 THEN 20 * 60 ELSE 0)

\* An hours check that lets every driver state through.
OverBudgetNever(driverState, route, maxHoursPerDriver) == FALSE

\* The hours check without the estimated time of the order at hand.
OverBudgetNoEstimate(driverState, route, maxHoursPerDriver) ==
  driverState.currentHours > maxHoursPerDriver * 60

\* Is the driver state skipped by the hours check of findOptimalDriver
\* (line 234)?  Hours are in minutes, so is the estimated time.
OverBudget(driverState, route, maxHoursPerDriver) ==
  driverState.currentHours + GetEstimatedTime(route, GetFatigueFactor(driverState.driver))
    > maxHoursPerDriver * 60

\* The scan with the best driver replaced on an equal score as well.
RECURSIVE FindOptimalDriverFromLastOnTie(_, _, _, _, _, _)
FindOptimalDriverFromLastOnTie(driverStates, order, maxHoursPerDriver, i, bestDriver, bestScore) ==
  IF i > Len(driverStates) THEN bestDriver
  ELSE IF order.assignedRoute = Null
       THEN FindOptimalDriverFromLastOnTie(driverStates, order, maxHoursPerDriver, i + 1, bestDriver, bestScore)
  ELSE LET route == order.assignedRoute
           score == CalculateDriverScore(driverStates[i], order, route)
       IN  IF OverBudget(driverStates[i], route, maxHoursPerDriver)
           THEN FindOptimalDriverFromLastOnTie(driverStates, order, maxHoursPerDriver, i + 1, bestDriver, bestScore)
           ELSE IF score >= bestScore
                THEN FindOptimalDriverFromLastOnTie(driverStates, order, maxHoursPerDriver, i + 1, i, score)
                ELSE FindOptimalDriverFromLastOnTie(driverStates, order, maxHoursPerDriver, i + 1, bestDriver, bestScore)

\* findOptimalDriver: the index in driverStates of the chosen state, 0 for
\* null.  bestScore starts at -1.
RECURSIVE FindOptimalDriverFrom(_, _, _, _, _, _)
FindOptimalDriverFrom(driverStates, order, maxHoursPerDriver, i, bestDriver, bestScore) ==
  IF i > Len(driverStates) THEN bestDriver
  ELSE IF order.assignedRoute = Null
       THEN FindOptimalDriverFrom(driverStates, order, maxHoursPerDriver, i + 1, bestDriver, bestScore)
  ELSE LET route == order.assignedRoute
           score == CalculateDriverScore(driverStates[i], order, route)
       IN  IF OverBudget(driverStates[i], route, maxHoursPerDriver)
           THEN FindOptimalDriverFrom(driverStates, order, maxHoursPerDriver, i + 1, bestDriver, bestScore)
           ELSE IF score > bestScore
                THEN FindOptimalDriverFrom(driverStates, order, maxHoursPerDriver, i + 1, i, score)
                ELSE FindOptimalDriverFrom(driverStates, order, maxHoursPerDriver, i + 1, bestDriver, bestScore)

FindOptimalDriver(driverStates, order, maxHoursPerDriver) ==
  FindOptimalDriverFrom(driverStates, order, maxHoursPerDriver, 1, 0, -1 * 60)

\* A delivery timed from the start of the simulation, not from the driver's clock.
SimulateDeliveryFromStart(driverState, order, simulationStartTime) ==
  LET driver            == driverState.driver
      route             == order.assignedRoute
      fatigueFactor     == GetFatigueFactor(driver)
      baseTime          == route.baseTime
      trafficMultiplier == GetTrafficMultiplier(route)
      actualTime        == Round(baseTime * trafficMultiplier * fatigueFactor, 100)
      fuelCost          == CalculateFuelCost(route) * 3
      driverEarnings    == actualTime * driver.hourlyRate * 5
      deliveryBonus     == CalculateDeliveryBonus(order) * 6
      scheduledTime     == order.scheduledDeliveryTime
      deliveryTime      == simulationStartTime + actualTime
      revenue           == order.valueRs * 30
      totalCosts        == fuelCost + driverEarnings
      profit            == revenue - totalCosts + deliveryBonus
  IN  [orderId            |-> order.orderId,
       driverId           |-> driver._id,
       routeId            |-> route.routeId,
       distance           |-> route.distance,
       timeSpent          |-> actualTime,
       fuelCost           |-> Round(fuelCost, 300),
       driverEarnings     |-> Round(driverEarnings, 300),
       deliveryBonus      |-> Round(deliveryBonus, 300),
       profit             |-> Round(profit, 300),
       isOnTime           |-> deliveryTime <= scheduledTime,
       scheduledTime      |-> scheduledTime,
       actualDeliveryTime |-> deliveryTime,
       fatigueFactor      |-> fatigueFactor,
       trafficMultiplier  |-> trafficMultiplier]

\* simulateDelivery: the delivery result of one driver/order pairing.  The
\* amounts of lines 286-298 are held in 300ths until they are rounded.
SimulateDelivery(driverState, order, simulationStartTime) ==
  LET driver            == driverState.driver
      route             == order.assignedRoute
      fatigueFactor     == GetFatigueFactor(driver)
      baseTime          == route.baseTime
      trafficMultiplier == GetTrafficMultiplier(route)
      actualTime        == Round(baseTime * trafficMultiplier * fatigueFactor, 100)
      fuelCost          == CalculateFuelCost(route) * 3
      driverEarnings    == actualTime * driver.hourlyRate * 5
      deliveryBonus     == CalculateDeliveryBonus(order) * 6
      scheduledTime     == order.scheduledDeliveryTime
      deliveryTime      == driverState.currentTime + actualTime
      revenue           == order.valueRs * 30
      totalCosts        == fuelCost + driverEarnings
      profit            == revenue - totalCosts + deliveryBonus
  IN  [orderId            |-> order.orderId,
       driverId           |-> driver._id,
       routeId            |-> route.routeId,
       distance           |-> route.distance,
       timeSpent          |-> actualTime,
       fuelCost           |-> Round(fuelCost, 300),
       driverEarnings     |-> Round(driverEarnings, 300),
       deliveryBonus      |-> Round(deliveryBonus, 300),
       profit             |-> Round(profit, 300),
       isOnTime           |-> deliveryTime <= scheduledTime,
       scheduledTime      |-> scheduledTime,
       actualDeliveryTime |-> deliveryTime,
       fatigueFactor      |-> fatigueFactor,
       trafficMultiplier  |-> trafficMultiplier]

\* The locals with only the orders that have a route counted as possible
\* (at least one, to divide by).
PerformInitCountsRouted(drivers, orders, maxHoursPerDriver, simulationStartTime) ==
  [simulationStartTime |-> simulationStartTime,
   maxHoursPerDriver   |-> maxHoursPerDriver,
   totalPossibleOrders |-> Max(Len(SelectSeq(orders, LAMBDA o : o.assignedRoute # Null)), 1),
   results             |-> [totalProfit         |-> 0,
                            totalFuelCost       |-> 0,
                            totalOrders         |-> 0,
                            onTimeDeliveries    |-> 0,
                            lateDeliveries      |-> 0,
                            driversUsed         |-> 0,
                            efficiencyScore     |-> 0,
                            driverPerformance   |-> <<>>,
                            orderResults        |-> <<>>,
                            optimizationDetails |-> [totalDistance      |-> 0,
                                                     totalTime          |-> 0,
                                                     averageUtilization |-> 0]],
   driverStates        |-> [i \in 1..Len(drivers) |->
                              [driver         |-> drivers[i],
                               currentHours   |-> drivers[i].currentShiftHours,
                               assignedOrders |-> <<>>,
                               totalEarnings  |-> Number(0),
                               totalDistance  |-> 0,
                               currentTime    |-> simulationStartTime]],
   sortedOrders        |-> SortOrders(orders),
   idx                 |-> 1,
   bestDriver          |-> 0,
   deliveryResult      |-> None]

\* The locals of performDeliverySimulation after lines 117-153: the empty
\* results, one state record per driver and the sorted order queue.  idx is
\* the position of the for-of loop in sortedOrders; deliveryResult holds the
\* result the loop is awaiting (line 160), bestDriver the state it is for.
PerformInit(drivers, orders, maxHoursPerDriver, simulationStartTime) ==
  [simulationStartTime |-> simulationStartTime,
   maxHoursPerDriver   |-> maxHoursPerDriver,
   totalPossibleOrders |-> Len(orders),
   results             |-> [totalProfit         |-> 0,
                            totalFuelCost       |-> 0,
                            totalOrders         |-> 0,
                            onTimeDeliveries    |-> 0,
                            lateDeliveries      |-> 0,
                            driversUsed         |-> 0,
                            efficiencyScore     |-> 0,
                            driverPerformance   |-> <<>>,
                            orderResults        |-> <<>>,
                            optimizationDetails |-> [totalDistance      |-> 0,
                                                     totalTime          |-> 0,
                                                     averageUtilization |-> 0]],
   driverStates        |-> [i \in 1..Len(drivers) |->
                              [driver         |-> drivers[i],
                               currentHours   |-> drivers[i].currentShiftHours,
                               assignedOrders |-> <<>>,
                               totalEarnings  |-> Number(0),
                               totalDistance  |-> 0,
                               currentTime    |-> simulationStartTime]],
   sortedOrders        |-> SortOrders(orders),
   idx                 |-> 1,
   bestDriver          |-> 0,
   deliveryResult      |-> None]

\* Lines 156-160: the for-of loop from position idx up to its next await
\* (an order for which a driver was found) or to the end of the queue.
RECURSIVE AdvanceLoop(_)
AdvanceLoop(run) ==
  IF run.idx > Len(run.sortedOrders) THEN run
  ELSE LET order      == run.sortedOrders[run.idx]
           bestDriver == FindOptimalDriver(run.driverStates, order, run.maxHoursPerDriver)
       IN  IF bestDriver # 0
           THEN [run EXCEPT !.bestDriver     = bestDriver,
                            !.deliveryResult =
                               Some(SimulateDelivery(run.driverStates[bestDriver], order,
                                                     run.simulationStartTime))]
           ELSE AdvanceLoop([run EXCEPT !.idx = @ + 1])

\* A loop body that goes back to the head of the queue after a delivery.
ApplyDeliveryRestartsQueue(run) ==
  LET deliveryResult == Val(run.deliveryResult)
      b              == run.bestDriver
  IN  [run EXCEPT
         !.driverStates[b].assignedOrders = Append(@, deliveryResult),
         !.driverStates[b].totalEarnings  = Plus(@, Get(deliveryResult, "earnings")),
         !.driverStates[b].totalDistance  = @ + deliveryResult.distance,
         !.driverStates[b].currentHours   = @ + deliveryResult.timeSpent,
         !.driverStates[b].currentTime    = @ + deliveryResult.timeSpent,
         !.results.totalOrders            = @ + 1,
         !.results.totalProfit            = @ + deliveryResult.profit,
         !.results.totalFuelCost          = @ + deliveryResult.fuelCost,
         !.results.onTimeDeliveries       = IF deliveryResult.isOnTime THEN @ + 1 ELSE @,
         !.results.lateDeliveries         = IF deliveryResult.isOnTime THEN @ ELSE @ + 1,
         !.results.orderResults           = Append(@, deliveryResult),
         !.results.optimizationDetails.totalDistance = @ + deliveryResult.distance,
         !.results.optimizationDetails.totalTime     = @ + deliveryResult.timeSpent,
         !.idx            = 1,
         !.bestDriver     = 0,
         !.deliveryResult = None]

\* A loop body that also writes the simulated hours into the driver document.
ApplyDeliveryCommitsHours(run) ==
  LET deliveryResult == Val(run.deliveryResult)
      b              == run.bestDriver
  IN  [run EXCEPT
         !.driverStates[b].driver.currentShiftHours = @ + deliveryResult.timeSpent,
         !.driverStates[b].assignedOrders = Append(@, deliveryResult),
         !.driverStates[b].totalEarnings  = Plus(@, Get(deliveryResult, "earnings")),
         !.driverStates[b].totalDistance  = @ + deliveryResult.distance,
         !.driverStates[b].currentHours   = @ + deliveryResult.timeSpent,
         !.driverStates[b].currentTime    = @ + deliveryResult.timeSpent,
         !.results.totalOrders            = @ + 1,
         !.results.totalProfit            = @ + deliveryResult.profit,
         !.results.totalFuelCost          = @ + deliveryResult.fuelCost,
         !.results.onTimeDeliveries       = IF deliveryResult.isOnTime THEN @ + 1 ELSE @,
         !.results.lateDeliveries         = IF deliveryResult.isOnTime THEN @ ELSE @ + 1,
         !.results.orderResults           = Append(@, deliveryResult),
         !.results.optimizationDetails.totalDistance = @ + deliveryResult.distance,
         !.results.optimizationDetails.totalTime     = @ + deliveryResult.timeSpent,
         !.idx            = @ + 1,
         !.bestDriver     = 0,
         !.deliveryResult = None]

\* Lines 161-181: the loop body after the await, then on to the next order.
ApplyDelivery(run) ==
  LET deliveryResult == Val(run.deliveryResult)
      b              == run.bestDriver
  IN  [run EXCEPT
         !.driverStates[b].assignedOrders = Append(@, deliveryResult),
         !.driverStates[b].totalEarnings  = Plus(@, Get(deliveryResult, "earnings")),
         !.driverStates[b].totalDistance  = @ + deliveryResult.distance,
         !.driverStates[b].currentHours   = @ + deliveryResult.timeSpent,
         !.driverStates[b].currentTime    = @ + deliveryResult.timeSpent,
         !.results.totalOrders            = @ + 1,
         !.results.totalProfit            = @ + deliveryResult.profit,
         !.results.totalFuelCost          = @ + deliveryResult.fuelCost,
         !.results.onTimeDeliveries       = IF deliveryResult.isOnTime THEN @ + 1 ELSE @,
         !.results.lateDeliveries         = IF deliveryResult.isOnTime THEN @ ELSE @ + 1,
         !.results.orderResults           = Append(@, deliveryResult),
         !.results.optimizationDetails.totalDistance = @ + deliveryResult.distance,
         !.results.optimizationDetails.totalTime     = @ + deliveryResult.timeSpent,
         !.idx            = @ + 1,
         !.bestDriver     = 0,
         !.deliveryResult = None]

RECURSIVE CountOnTime(_)
CountOnTime(assignedOrders) ==
  IF assignedOrders = <<>> THEN 0
  ELSE (IF Head(assignedOrders).isOnTime THEN 1 ELSE 0) + CountOnTime(Tail(assignedOrders))

RECURSIVE SumProfit(_)
SumProfit(assignedOrders) ==
  IF assignedOrders = <<>> THEN 0
  ELSE Head(assignedOrders).profit + SumProfit(Tail(assignedOrders))

\* calculateDriverEfficiency (x 100): profit per hour, to 2 decimals
CalculateDriverEfficiency(driverState) ==
  IF Len(driverState.assignedOrders) = 0 THEN 0
  ELSE LET totalRevenue == SumProfit(driverState.assignedOrders)
           totalTime    == driverState.currentHours
       IN  IF totalTime > 0 THEN Round(totalRevenue * 60 * 100, totalTime) ELSE 0

\* A performance entry for every driver state, with or without orders.
RECURSIVE DriverPerformanceOfAll(_, _)
DriverPerformanceOfAll(driverStates, i) ==
  IF i > Len(driverStates) THEN <<>>
  ELSE LET driverState == driverStates[i]
       IN  (IF Len(driverState.assignedOrders) >= 0
            THEN <<[driverId        |-> driverState.driver._id,
                    ordersCompleted |-> Len(driverState.assignedOrders),
                    \* Math.round keeps a whole number and keeps NaN
                    totalEarnings   |-> driverState.totalEarnings,
                    totalDistance   |-> driverState.totalDistance * 10,
                    hoursWorked     |-> Round(driverState.currentHours * 100, 60),
                    efficiency      |-> CalculateDriverEfficiency(driverState),
                    onTimeOrders    |-> CountOnTime(driverState.assignedOrders)]>>
            ELSE <<>>) \o DriverPerformanceOfAll(driverStates, i + 1)

\* Lines 187-202: one performance entry per driver state with an order.
RECURSIVE DriverPerformance(_, _)
DriverPerformance(driverStates, i) ==
  IF i > Len(driverStates) THEN <<>>
  ELSE LET driverState == driverStates[i]
       IN  (IF Len(driverState.assignedOrders) > 0
            THEN <<[driverId        |-> driverState.driver._id,
                    ordersCompleted |-> Len(driverState.assignedOrders),
                    \* Math.round keeps a whole number and keeps NaN
                    totalEarnings   |-> driverState.totalEarnings,
                    totalDistance   |-> driverState.totalDistance * 10,
                    hoursWorked     |-> Round(driverState.currentHours * 100, 60),
                    efficiency      |-> CalculateDriverEfficiency(driverState),
                    onTimeOrders    |-> CountOnTime(driverState.assignedOrders)]>>
            ELSE <<>>) \o DriverPerformance(driverStates, i + 1)

\* The final metrics with the weights 0.3, 0.3 and 0.4.
FinalizeOtherWeights(run) ==
  LET results     == run.results
      driversUsed == Cardinality({i \in DOMAIN run.driverStates :
                                    Len(run.driverStates[i].assignedOrders) > 0})
      totalTime   == results.optimizationDetails.totalTime
      \* the three rates as fractions n/d of 100
      d1 == run.totalPossibleOrders
      n1 == results.totalOrders
      d2 == IF results.totalOrders > 0 THEN results.totalOrders ELSE 1
      n2 == IF results.totalOrders > 0 THEN results.onTimeDeliveries ELSE 0
      d3 == IF driversUsed > 0 THEN driversUsed * run.maxHoursPerDriver * 60 ELSE 1
      n3 == IF driversUsed > 0 THEN totalTime ELSE 0
  IN  [results EXCEPT
         !.driversUsed       = driversUsed,
         !.driverPerformance = DriverPerformance(run.driverStates, 1),
         \* lines 217-218: Math.round of the two sums
         !.totalProfit       = Round(@, 1),
         !.totalFuelCost     = Round(@, 1),
         !.efficiencyScore   = Round(3000 * n1 * d2 * d3 + 3000 * n2 * d1 * d3 + 4000 * n3 * d1 * d2,
                                     d1 * d2 * d3),
         !.optimizationDetails.averageUtilization = Round(10000 * n3, d3)]

\* Lines 184-220: the final metrics; the value performDeliverySimulation
\* returns.
Finalize(run) ==
  LET results     == run.results
      driversUsed == Cardinality({i \in DOMAIN run.driverStates :
                                    Len(run.driverStates[i].assignedOrders) > 0})
      totalTime   == results.optimizationDetails.totalTime
      \* the three rates as fractions n/d of 100
      d1 == run.totalPossibleOrders
      n1 == results.totalOrders
      d2 == IF results.totalOrders > 0 THEN results.totalOrders ELSE 1
      n2 == IF results.totalOrders > 0 THEN results.onTimeDeliveries ELSE 0
      d3 == IF driversUsed > 0 THEN driversUsed * run.maxHoursPerDriver * 60 ELSE 1
      n3 == IF driversUsed > 0 THEN totalTime ELSE 0
  IN  [results EXCEPT
         !.driversUsed       = driversUsed,
         !.driverPerformance = DriverPerformance(run.driverStates, 1),
         \* lines 217-218: Math.round of the two sums
         !.totalProfit       = Round(@, 1),
         !.totalFuelCost     = Round(@, 1),
         !.efficiencyScore   = Round(4000 * n1 * d2 * d3 + 4000 * n2 * d1 * d3 + 2000 * n3 * d1 * d2,
                                     d1 * d2 * d3),
         !.optimizationDetails.averageUtilization = Round(10000 * n3, d3)]

\* performDeliverySimulation as a whole: the loop run to its end.
RECURSIVE RunLoop(_)
RunLoop(run) ==
  LET next == AdvanceLoop(run)
  IN  IF next.deliveryResult = None THEN next ELSE RunLoop(ApplyDelivery(next))

PerformDeliverySimulation(drivers, orders, maxHoursPerDriver, simulationStartTime) ==
  Finalize(RunLoop(PerformInit(drivers, orders, maxHoursPerDriver, simulationStartTime)))

\* ------------------------------------------------- the database queries
\* Driver.find({status: "active"}).sort({currentShiftHours: 1, rating: -1})
CompareDrivers(a, b) ==
  IF a.currentShiftHours # b.currentShiftHours
  THEN a.currentShiftHours - b.currentShiftHours
  ELSE b.rating - a.rating

RECURSIVE InsertDriver(_, _)
InsertDriver(sorted, e) ==
  IF sorted = <<>> THEN <<e>>
  ELSE IF CompareDrivers(Head(sorted), e) <= 0
       THEN <<Head(sorted)>> \o InsertDriver(Tail(sorted), e)
       ELSE <<e>> \o sorted

\* The documents of `active` are met in insertion (_id) order.
RECURSIVE SortDriversFrom(_, _, _)
SortDriversFrom(active, i, acc) ==
  IF \A j \in active : j < i THEN acc
  ELSE SortDriversFrom(active, i + 1,
                       IF i \in active THEN InsertDriver(acc, DriverDoc(i)) ELSE acc)

Limit(seq, n) == SubSeq(seq, 1, Min(n, Len(seq)))

\* The result of the driver query (lines 43-45) when the documents with
\* status "active" are those of `active`.
FindActiveDrivers(active, numberOfDrivers) ==
  Limit(SortDriversFrom(active, 1, <<>>), numberOfDrivers)

\* The result of the order query (line 47) when the documents with status
\* "pending" are those of `pending`: natural (insertion) order.
RECURSIVE FindPendingOrdersFrom(_, _)
FindPendingOrdersFrom(pending, i) ==
  IF \A j \in pending : j < i THEN <<>>
  ELSE (IF i \in pending THEN <<OrderDoc(i)>> ELSE <<>>) \o FindPendingOrdersFrom(pending, i + 1)

FindPendingOrders(pending) == FindPendingOrdersFrom(pending, 1)

\* ------------------------------------------------------------ the state
VARIABLES
  simulationInProgress,  \* the module-level flag (line 7)
  simulationResults,     \* the module-level cache (line 8)
  pc,                    \* per request: the await it is suspended at
  body,                  \* per request: req.body while the request is handled
  availableDrivers,      \* per request: the local of line 43
  run,                   \* per request: the locals of performDeliverySimulation
  response,              \* the response the last step sent on POST /run, if any
  issued,                \* the database query the last step issued, if any
  statusResponse,        \* the data the last step sent on GET /status, if any
  now,                   \* the wall clock, Date.now()
  lastCompleted,         \* history: what the last successful run returned
  simInput,              \* engine alone: the arguments of performDeliverySimulation
  simRun,                \* engine alone: its locals
  simPc,                 \* engine alone: its position
  subject,               \* a model method alone: the document it is called on
  returned,              \* a model method alone: what it returned, if it has
  orderDb,               \* the orders collection: the paths a deliver request writes
  routeDb,               \* the routes collection: the paths a deliver request writes
  deliver,               \* per deliver request: its position and its locals
  deliverResponse        \* what the last step sent on PUT /api/orders/:id/deliver

vars == <<simulationInProgress, simulationResults, pc, body, availableDrivers, run,
          response, issued, statusResponse, now, lastCompleted, simInput, simRun, simPc,
          subject, returned, orderDb, routeDb, deliver, deliverResponse>>

controllerVars == <<simulationInProgress, simulationResults, pc, body, availableDrivers, run,
                    response, issued, statusResponse, lastCompleted>>

httpVars == <<controllerVars, now>>

engineVars == <<simInput, simRun, simPc>>

methodVars == <<subject, returned>>

deliverVars == <<orderDb, routeDb, deliver, deliverResponse>>

\* what the two HTTP handlers of the simulation never touch
notHttp == <<engineVars, methodVars, deliverVars>>

NoBody     == [isNull |-> TRUE]
NoRun      == [isNull |-> TRUE]
NoResponse == [req |-> 0, status |-> 0, message |-> ""]
NoDeliverResponse == [req |-> 0, status |-> 0, message |-> "", deliveryBonus |-> None]

InvalidDriversMessage == "Number of drivers must be between 1 and 50"
InvalidHoursMessage   == "Max hours per driver must be between 1 and 24"
ConflictMessage       == "Simulation is already in progress. Please wait for it to complete."
NoDriversMessage      == "No active drivers available for simulation"
NoOrdersMessage       == "No pending orders available for simulation"
SuccessMessage        == "Simulation completed successfully"
FailedMessage         == "Simulation failed"

\* res.status(status).json({message}) on request r
Json(r, status, message) == [req |-> r, status |-> status, message |-> message]

\* The request bodies the model sends.  The valid ones: one driver for a
\* whole day starting now, and two drivers for one hour from a given
\* start time.  The invalid ones: the driver count missing or zero, the
\* hours missing or above the range, and both fields above their range.
Body(n, h, t) == [numberOfDrivers |-> n, maxHoursPerDriver |-> h, startTime |-> t]

ValidBodies == {Body(Some(1), Some(24), None), Body(Some(2), Some(1), Some(120))}

InvalidBodies ==
  {Body(None, Some(24), None), Body(Some(0), Some(24), None),
   Body(Some(1), None, None), Body(Some(1), Some(25), None),
   Body(Some(51), Some(25), Some(120))}

Bodies == ValidBodies \cup InvalidBodies

\* !x || x < lo || x > hi  for a body field that is missing or an integer
OutOfRange(field, lo, hi) ==
  field = None \/ Val(field) = 0 \/ Val(field) < lo \/ Val(field) > hi

\* line 18 and line 25
InvalidNumberOfDrivers(b)   == OutOfRange(b.numberOfDrivers, 1, 50)

\* A range check of the hours with the bounds of the driver count.
InvalidMaxHoursPerDriverTo50(b) == OutOfRange(b.maxHoursPerDriver, 1, 50)

InvalidMaxHoursPerDriver(b) == OutOfRange(b.maxHoursPerDriver, 1, 24)

\* line 33
AlreadyRunning == simulationInProgress

Init ==
  /\ simulationInProgress = FALSE
  /\ simulationResults = Null
  /\ pc = [r \in Req |-> "idle"]
  /\ body = [r \in Req |-> NoBody]
  /\ availableDrivers = [r \in Req |-> <<>>]
  /\ run = [r \in Req |-> NoRun]
  /\ response = NoResponse
  /\ issued = "none"
  /\ statusResponse = Null
  /\ now = 0
  /\ lastCompleted = Null
  /\ simInput = Null
  /\ simRun = NoRun
  /\ simPc = "off"
  /\ subject = Null
  /\ returned = None
  /\ orderDb = <<>>
  /\ routeDb = <<>>
  /\ deliver = <<>>
  /\ deliverResponse = NoDeliverResponse

\* The handler of request r sends a response and returns: its locals are gone.
Return(r, status, message) ==
  /\ response' = Json(r, status, message)
  /\ pc' = [pc EXCEPT ![r] = "idle"]
  /\ body' = [body EXCEPT ![r] = NoBody]
  /\ availableDrivers' = [availableDrivers EXCEPT ![r] = <<>>]
  /\ run' = [run EXCEPT ![r] = NoRun]

\* The call of performDeliverySimulation went on to `next`: it is suspended
\* at line 160 if a delivery result is pending, and has returned otherwise,
\* the caller being suspended at line 66.
Suspend(r, next) ==
  /\ IF next.deliveryResult = None
     THEN /\ run' = [run EXCEPT ![r] = [next EXCEPT !.results = Finalize(next)]]
          /\ pc' = [pc EXCEPT ![r] = "awaitPerform"]
     ELSE /\ run' = [run EXCEPT ![r] = next]
          /\ pc' = [pc EXCEPT ![r] = "awaitDelivery"]
  /\ response' = NoResponse
  /\ UNCHANGED <<body, availableDrivers>>

\* A conflict rejection that releases the flag on its way out.
RejectConflictClearsFlag(r) ==
  /\ simulationInProgress' = FALSE
  /\ Return(r, 409, ConflictMessage)

\* lines 34-37
RejectConflict(r) ==
  /\ UNCHANGED simulationInProgress
  /\ Return(r, 409, ConflictMessage)

\* The no-drivers rejection without line 50.
RejectNoDriversKeepsFlag(r) ==
  /\ UNCHANGED simulationInProgress
  /\ Return(r, 400, NoDriversMessage)

\* lines 50-54
RejectNoDrivers(r) ==
  /\ simulationInProgress' = FALSE
  /\ Return(r, 400, NoDriversMessage)

\* The no-orders rejection without line 58.
RejectNoOrdersKeepsFlag(r) ==
  /\ UNCHANGED simulationInProgress
  /\ Return(r, 400, NoOrdersMessage)

\* lines 58-62
RejectNoOrders(r) ==
  /\ simulationInProgress' = FALSE
  /\ Return(r, 400, NoOrdersMessage)

\* POST /api/simulation/run with body b: lines 15-43, up to the first await.
\* The identifiers of Req name the handler invocations that are alive at the
\* same time; a new invocation takes the lowest identifier that is free.
HandleRun(r, b) ==
  /\ pc[r] = "idle"
  /\ \A q \in Req : q < r => pc[q] # "idle"
  /\ IF InvalidNumberOfDrivers(b)
     THEN /\ Return(r, 400, InvalidDriversMessage)
          /\ issued' = "none"
          /\ UNCHANGED simulationInProgress
     ELSE IF InvalidMaxHoursPerDriver(b)
     THEN /\ Return(r, 400, InvalidHoursMessage)
          /\ issued' = "none"
          /\ UNCHANGED simulationInProgress
     ELSE IF AlreadyRunning
     THEN /\ RejectConflict(r)
          /\ issued' = "none"
     ELSE /\ simulationInProgress' = TRUE
          /\ pc' = [pc EXCEPT ![r] = "awaitDrivers"]
          /\ body' = [body EXCEPT ![r] = b]
          /\ response' = NoResponse
          /\ issued' = "Driver.find"
          /\ UNCHANGED <<availableDrivers, run>>
  /\ statusResponse' = Null
  /\ UNCHANGED <<simulationResults, now, lastCompleted>>

RunSimulation(r) == \E b \in Bodies : HandleRun(r, b) /\ UNCHANGED notHttp

\* The driver query resolves (line 43); the order query is issued (line 47).
DriversReturned(r) ==
  /\ pc[r] = "awaitDrivers"
  /\ \E active \in SUBSET DriverIds :
       availableDrivers' = [availableDrivers EXCEPT
                              ![r] = FindActiveDrivers(active, Val(body[r].numberOfDrivers))]
  /\ pc' = [pc EXCEPT ![r] = "awaitOrders"]
  /\ issued' = "Order.find"
  /\ response' = NoResponse
  /\ statusResponse' = Null
  /\ UNCHANGED <<simulationInProgress, simulationResults, body, run, now, lastCompleted>>
  /\ UNCHANGED notHttp

\* The order query resolves (line 47): lines 49-66 and performDeliverySimulation
\* up to its first await.
OrdersResolved(r, pendingOrders) ==
  /\ pc[r] = "awaitOrders"
  /\ IF Len(availableDrivers[r]) = 0
     THEN RejectNoDrivers(r)
     ELSE IF Len(pendingOrders) = 0
     THEN RejectNoOrders(r)
     ELSE /\ Suspend(r, AdvanceLoop(PerformInit(availableDrivers[r], pendingOrders,
                                                Val(body[r].maxHoursPerDriver),
                                                IF body[r].startTime # None
                                                THEN Val(body[r].startTime) ELSE now)))
          /\ UNCHANGED simulationInProgress
  /\ issued' = "none"
  /\ statusResponse' = Null
  /\ UNCHANGED <<simulationResults, now, lastCompleted>>

OrdersReturned(r) ==
  \E pending \in SUBSET OrderIds :
    OrdersResolved(r, FindPendingOrders(pending)) /\ UNCHANGED notHttp

\* simulateDelivery resolves (line 160): lines 161-181 and the loop up to
\* its next await.
DeliveryResolved(r) ==
  /\ pc[r] = "awaitDelivery"
  /\ Suspend(r, AdvanceLoop(ApplyDelivery(run[r])))
  /\ issued' = "none"
  /\ statusResponse' = Null
  /\ UNCHANGED <<simulationInProgress, simulationResults, now, lastCompleted>>
  /\ UNCHANGED notHttp

\* performDeliverySimulation resolves (line 66): lines 68-82.
PerformResolved(r) ==
  /\ pc[r] = "awaitPerform"
  /\ simulationResults' = [results    |-> run[r].results,
                           timestamp  |-> now,
                           parameters |-> body[r]]
  /\ simulationInProgress' = FALSE
  /\ Return(r, 200, SuccessMessage)
  /\ lastCompleted' =
       [results    |-> PerformDeliverySimulation(availableDrivers[r], run[r].sortedOrders,
                                                 run[r].maxHoursPerDriver,
                                                 run[r].simulationStartTime),
        timestamp  |-> now,
        parameters |-> body[r]]
  /\ issued' = "none"
  /\ statusResponse' = Null
  /\ UNCHANGED now
  /\ UNCHANGED notHttp

\* A catch block that leaves the flag as it is.
CatchErrorKeepsFlag(r) ==
  /\ pc[r] # "idle"
  /\ UNCHANGED simulationInProgress
  /\ Return(r, 500, FailedMessage)
  /\ issued' = "none"
  /\ statusResponse' = Null
  /\ UNCHANGED <<simulationResults, now, lastCompleted>>
  /\ UNCHANGED notHttp

\* A catch block that caches what the run has so far.
CatchErrorCachesPartial(r) ==
  /\ pc[r] # "idle"
  /\ simulationInProgress' = FALSE
  /\ simulationResults' = IF run[r] = NoRun THEN simulationResults
                          ELSE [results    |-> run[r].results,
                                timestamp  |-> now,
                                parameters |-> body[r]]
  /\ Return(r, 500, FailedMessage)
  /\ issued' = "none"
  /\ statusResponse' = Null
  /\ UNCHANGED <<now, lastCompleted>>
  /\ UNCHANGED notHttp

\* An awaited promise rejects or the loop throws: the catch block, lines 83-91.
CatchError(r) ==
  /\ pc[r] # "idle"
  /\ simulationInProgress' = FALSE
  /\ Return(r, 500, FailedMessage)
  /\ issued' = "none"
  /\ statusResponse' = Null
  /\ UNCHANGED <<simulationResults, now, lastCompleted>>
  /\ UNCHANGED notHttp

\* POST /api/simulation/run with a body whose numberOfDrivers is an object
\* that has no primitive value ({"toString": 1}): !numberOfDrivers is false
\* and numberOfDrivers < 1 (line 18) throws a TypeError inside the try
\* block, so the catch block of lines 83-91 runs before line 40 is reached.
RunSimulationThrows(r) ==
  /\ pc[r] = "idle"
  /\ \A q \in Req : q < r => pc[q] # "idle"
  /\ simulationInProgress' = FALSE
  /\ Return(r, 500, FailedMessage)
  /\ issued' = "none"
  /\ statusResponse' = Null
  /\ UNCHANGED <<simulationResults, now, lastCompleted>>
  /\ UNCHANGED notHttp

\* A status query that hides the cache while a run is in progress.
GetSimulationStatusHidesCache ==
  /\ statusResponse' = [inProgress  |-> simulationInProgress,
                        lastResults |-> IF simulationInProgress THEN Null
                                        ELSE simulationResults]
  /\ response' = NoResponse
  /\ issued' = "none"
  /\ UNCHANGED <<simulationInProgress, simulationResults, pc, body, availableDrivers, run,
                 now, lastCompleted>>
  /\ UNCHANGED notHttp

\* GET /api/simulation/status: lines 97-113.
GetSimulationStatus ==
  /\ statusResponse' = [inProgress  |-> simulationInProgress,
                        lastResults |-> simulationResults]
  /\ response' = NoResponse
  /\ issued' = "none"
  /\ UNCHANGED <<simulationInProgress, simulationResults, pc, body, availableDrivers, run,
                 now, lastCompleted>>
  /\ UNCHANGED notHttp

\* Time passes.
Tick ==
  /\ now < MaxClock
  /\ now' = now + 1
  /\ response' = NoResponse
  /\ issued' = "none"
  /\ statusResponse' = Null
  /\ UNCHANGED <<simulationInProgress, simulationResults, pc, body, availableDrivers, run,
                 lastCompleted>>
  /\ UNCHANGED notHttp

Next ==
  \/ \E r \in Req : RunSimulation(r)
  \/ \E r \in Req : DriversReturned(r)
  \/ \E r \in Req : OrdersReturned(r)
  \/ \E r \in Req : DeliveryResolved(r)
  \/ \E r \in Req : PerformResolved(r)
  \/ \E r \in Req : CatchError(r)
  \/ GetSimulationStatus
  \/ Tick

Spec == Init /\ [][Next]_vars

\* The handlers with, among the requests, those whose body makes the
\* validation throw.
AnyBodyNext == Next \/ \E r \in Req : RunSimulationThrows(r)

AnyBodySpec == Init /\ [][AnyBodyNext]_vars

\* Every awaited promise settles: the handler suspended at an await is
\* resumed, by the rejection or by the value.
Settle(r) ==
  \/ CatchError(r)
  \/ DriversReturned(r)
  \/ OrdersReturned(r)
  \/ DeliveryResolved(r)
  \/ PerformResolved(r)

FairSpec == Spec /\ \A r \in Req : WF_vars(Settle(r))

\* --------------------------------------- the engine on its own arguments
\* performDeliverySimulation called on drivers and orders as the caller
\* supplies them: a non-empty list of active drivers, sorted and truncated
\* by the driver query, and a non-empty list of pending orders in any order.
SimDriverIds == 1..MaxSimDrivers
SimOrderIds  == 1..MaxSimOrders
SimMaxHours  == {1, 6, 24}
SimStartTimes == {0, 120}

SimDriverLists ==
  {FindActiveDrivers(active, n) : active \in (SUBSET SimDriverIds) \ {{}}, n \in {1, 50}}

SimOrderLists ==
  {[i \in DOMAIN ids |-> OrderDoc(ids[i])] :
     ids \in {f \in UNION {[1..n -> SimOrderIds] : n \in 1..MaxSimOrders} :
                \A i, j \in DOMAIN f : i # j => f[i] # f[j]}}

EngineInit ==
  /\ simulationInProgress = FALSE
  /\ simulationResults = Null
  /\ pc = [r \in Req |-> "idle"]
  /\ body = [r \in Req |-> NoBody]
  /\ availableDrivers = [r \in Req |-> <<>>]
  /\ run = [r \in Req |-> NoRun]
  /\ response = NoResponse
  /\ issued = "none"
  /\ statusResponse = Null
  /\ now = 0
  /\ lastCompleted = Null
  /\ simInput \in [drivers : SimDriverLists, orders : SimOrderLists,
                   maxHoursPerDriver : SimMaxHours, startTime : SimStartTimes]
  /\ simRun = NoRun
  /\ simPc = "call"
  /\ subject = Null
  /\ returned = None
  /\ orderDb = <<>>
  /\ routeDb = <<>>
  /\ deliver = <<>>
  /\ deliverResponse = NoDeliverResponse

SimSuspend(next) ==
  IF next.deliveryResult = None
  THEN /\ simRun' = [next EXCEPT !.results = Finalize(next)]
       /\ simPc' = "returned"
  ELSE /\ simRun' = next
       /\ simPc' = "awaitDelivery"

\* The call: lines 117-160, up to the first await.
PerformCall ==
  /\ simPc = "call"
  /\ SimSuspend(AdvanceLoop(PerformInit(simInput.drivers, simInput.orders,
                                        simInput.maxHoursPerDriver, simInput.startTime)))
  /\ UNCHANGED <<httpVars, simInput, methodVars, deliverVars>>

\* simulateDelivery resolves: lines 161-181 and the loop up to its next await.
PerformResume ==
  /\ simPc = "awaitDelivery"
  /\ SimSuspend(AdvanceLoop(ApplyDelivery(simRun)))
  /\ UNCHANGED <<httpVars, simInput, methodVars, deliverVars>>

EngineNext == PerformCall \/ PerformResume

EngineSpec == EngineInit /\ [][EngineNext]_vars

\* ------------------------------------- the model methods on their own
\* calculateDeliveryBonus and getFatigueFactor called on one document.  An
\* order has any status of the schema, either value of isHighValue, a value
\* at the ends of the schema's range or at the high-value threshold, and was
\* not delivered, or delivered early, on time, or up to MaxHoursLate hours
\* late; a driver has shift hours around each threshold of the schema's range.
OrderStatuses == {"pending", "assigned", "in-progress", "delivered", "late", "cancelled"}

MethodScheduled == 600

DeliveryTimestamps ==
  {None, Some(MethodScheduled - 1), Some(MethodScheduled)}
    \cup {Some(MethodScheduled + h * 60 + d) : h \in 0..(MaxHoursLate - 1), d \in {1, 60}}

MethodOrders ==
  [kind                  : {"Order"},
   status                : OrderStatuses,
   isHighValue           : BOOLEAN,
   valueRs               : {1, 10000, 1000000},
   scheduledDeliveryTime : {MethodScheduled},
   deliveryTimestamp     : DeliveryTimestamps]

ShiftMinutes == {0, 239, 240, 241, 479, 480, 481, 719, 720, 721, 1440}

MethodDrivers == [kind : {"Driver"}, currentShiftHours : ShiftMinutes]

MethodInit ==
  /\ simulationInProgress = FALSE
  /\ simulationResults = Null
  /\ pc = [r \in Req |-> "idle"]
  /\ body = [r \in Req |-> NoBody]
  /\ availableDrivers = [r \in Req |-> <<>>]
  /\ run = [r \in Req |-> NoRun]
  /\ response = NoResponse
  /\ issued = "none"
  /\ statusResponse = Null
  /\ now = 0
  /\ lastCompleted = Null
  /\ simInput = Null
  /\ simRun = NoRun
  /\ simPc = "off"
  /\ subject \in MethodOrders \cup MethodDrivers
  /\ returned = None
  /\ orderDb = <<>>
  /\ routeDb = <<>>
  /\ deliver = <<>>
  /\ deliverResponse = NoDeliverResponse

\* order.calculateDeliveryBonus()
CallCalculateDeliveryBonus ==
  /\ subject.kind = "Order"
  /\ returned = None
  /\ returned' = Some(CalculateDeliveryBonus(subject))
  /\ UNCHANGED <<httpVars, engineVars, subject, deliverVars>>

\* driver.getFatigueFactor()
CallGetFatigueFactor ==
  /\ subject.kind = "Driver"
  /\ returned = None
  /\ returned' = Some(GetFatigueFactor(subject))
  /\ UNCHANGED <<httpVars, engineVars, subject, deliverVars>>

MethodNext == CallCalculateDeliveryBonus \/ CallGetFatigueFactor

MethodSpec == MethodInit /\ [][MethodNext]_vars

\* --------------------------------- PUT /api/orders/:id/deliver on its own
\* The handler markAsDelivered of the order controller, suspended at each of
\* its awaits, under concurrent requests that name the same order document
\* or a document that does not exist (id 0).  A document save writes the
\* paths the handler modified on its own copy of the document.  A field of
\* the request body is drawn where the handler first uses it.
DeliverReq      == 1..NumDeliverReq
DeliverOrderIds == {1, 2}

\* The orders of the collection are on one route.
DeliverRouteId == 1

OrderNotFoundMessage   == "Order not found"
NotInProgressMessage   == "Order must be in progress to mark as delivered"
DeliveredMessage       == "Order marked as delivered successfully"
DeliverFailedMessage   == "Failed to mark order as delivered"

\* req.body.actualTimeMinutes, which may be missing
ActualTimes == {None, Some(30), Some(50)}

\* An Order document of the collection, with the paths the handler reads
\* and writes.
StoredOrder(i, status) ==
  [orderId               |-> i,
   valueRs               |-> OrderDoc(i).valueRs,
   isHighValue           |-> OrderDoc(i).isHighValue,
   scheduledDeliveryTime |-> OrderDoc(i).scheduledDeliveryTime,
   assignedRoute         |-> DeliverRouteId,
   status                |-> status,
   deliveryTimestamp     |-> None,
   actualDeliveryTime    |-> None]

\* A Route document of the collection, with the paths updateAverageTime
\* reads and writes.
StoredRoute(i) ==
  [routeId               |-> i,
   averageCompletionTime |-> RouteDoc(i).averageCompletionTime,
   totalCompletions      |-> RouteDoc(i).totalCompletions]

RouteIds == {DeliverRouteId}

IdleDeliver == [pc |-> "idle"]

DeliverInit ==
  /\ simulationInProgress = FALSE
  /\ simulationResults = Null
  /\ pc = [r \in Req |-> "idle"]
  /\ body = [r \in Req |-> NoBody]
  /\ availableDrivers = [r \in Req |-> <<>>]
  /\ run = [r \in Req |-> NoRun]
  /\ response = NoResponse
  /\ issued = "none"
  /\ statusResponse = Null
  /\ now = 0
  /\ lastCompleted = Null
  /\ simInput = Null
  /\ simRun = NoRun
  /\ simPc = "off"
  /\ subject = Null
  /\ returned = None
  /\ \E statuses \in [DeliverOrderIds -> OrderStatuses] :
       orderDb = [i \in DeliverOrderIds |-> StoredOrder(i, statuses[i])]
  /\ routeDb = [i \in RouteIds |-> StoredRoute(i)]
  /\ deliver = [r \in DeliverReq |-> IdleDeliver]
  /\ deliverResponse = NoDeliverResponse

DeliverJson(r, status, message, deliveryBonus) ==
  [req |-> r, status |-> status, message |-> message, deliveryBonus |-> deliveryBonus]

\* The handler of request r sends a response and returns.
DeliverReturn(r, status, message, deliveryBonus) ==
  /\ deliverResponse' = DeliverJson(r, status, message, deliveryBonus)
  /\ deliver' = [deliver EXCEPT ![r] = IdleDeliver]

\* orderSchema.methods.markAsDelivered on the handler's copy, up to save()
MarkAsDelivered(order, actualTimeMinutes, date) ==
  [order EXCEPT !.status             = "delivered",
                !.deliveryTimestamp  = Some(date),
                !.actualDeliveryTime = actualTimeMinutes]

\* routeSchema.methods.updateAverageTime on the handler's copy, up to save()
UpdateAverageTime(route, actualTime) ==
  LET totalTime == route.averageCompletionTime * route.totalCompletions + actualTime
  IN  [route EXCEPT !.totalCompletions      = @ + 1,
                    !.averageCompletionTime = Round(totalTime, route.totalCompletions + 1)]

\* !actualTimeMinutes
Falsy(actualTimeMinutes) == actualTimeMinutes = None \/ Val(actualTimeMinutes) = 0

\* Lines 324-332: the handler d goes on to the route, or to populate().
ToRouteOrPopulate(d) ==
  IF d.order.assignedRoute # 0 /\ ~Falsy(d.actualTimeMinutes)
  THEN [d EXCEPT !.pc = "findRoute"]
  ELSE [d EXCEPT !.pc = "populate"]

\* Lines 298-299: the request arrives and Order.findById is issued.  A new
\* invocation takes the lowest identifier that is free.
DeliverStart(r) ==
  /\ deliver[r].pc = "idle"
  /\ \A q \in DeliverReq : q < r => deliver[q].pc # "idle"
  /\ \E id \in DeliverOrderIds \cup {0} :
       deliver' = [deliver EXCEPT ![r] = [pc                |-> "findOrder",
                                          id                |-> id,
                                          actualTimeMinutes |-> None,
                                          order             |-> Null,
                                          route             |-> Null]]
  /\ deliverResponse' = NoDeliverResponse
  /\ UNCHANGED <<orderDb, routeDb>>
  /\ UNCHANGED <<httpVars, engineVars, methodVars>>

\* line 308
NotInProgress(order) == order.status # "in-progress"

\* Order.findById resolves (line 299): lines 301-316, up to the save of
\* order.markAsDelivered.
OrderFound(r) ==
  /\ deliver[r].pc = "findOrder"
  /\ IF deliver[r].id \notin DOMAIN orderDb
     THEN DeliverReturn(r, 404, OrderNotFoundMessage, None)
     ELSE LET order == orderDb[deliver[r].id]
          IN  IF NotInProgress(order)
              THEN DeliverReturn(r, 400, NotInProgressMessage, None)
              ELSE /\ \E actualTimeMinutes \in ActualTimes :
                        deliver' = [deliver EXCEPT
                                      ![r].pc                = "saveOrder",
                                      ![r].actualTimeMinutes = actualTimeMinutes,
                                      ![r].order = MarkAsDelivered(order, actualTimeMinutes, now)]
                   /\ deliverResponse' = NoDeliverResponse
  /\ UNCHANGED <<orderDb, routeDb>>
  /\ UNCHANGED <<httpVars, engineVars, methodVars>>

\* The save of markAsDelivered resolves (line 316): the three paths it set
\* are written; lines 318-326.
OrderSaved(r) ==
  /\ deliver[r].pc = "saveOrder"
  /\ orderDb' = [orderDb EXCEPT
                   ![deliver[r].id].status             = deliver[r].order.status,
                   ![deliver[r].id].deliveryTimestamp  = deliver[r].order.deliveryTimestamp,
                   ![deliver[r].id].actualDeliveryTime = deliver[r].order.actualDeliveryTime]
  /\ \E feedback \in BOOLEAN :
       deliver' = [deliver EXCEPT
                     ![r] = IF feedback
                            THEN [deliver[r] EXCEPT !.pc = "saveFeedback"]
                            ELSE ToRouteOrPopulate(deliver[r])]
  /\ deliverResponse' = NoDeliverResponse
  /\ UNCHANGED routeDb
  /\ UNCHANGED <<httpVars, engineVars, methodVars>>

\* The save of the feedback resolves (line 321); lines 324-326.  The
\* feedback path is the only one it writes; nothing reads it.
FeedbackSaved(r) ==
  /\ deliver[r].pc = "saveFeedback"
  /\ UNCHANGED orderDb
  /\ deliver' = [deliver EXCEPT ![r] = ToRouteOrPopulate(deliver[r])]
  /\ deliverResponse' = NoDeliverResponse
  /\ UNCHANGED routeDb
  /\ UNCHANGED <<httpVars, engineVars, methodVars>>

\* Route.findById resolves (line 326): lines 327-328, up to the save of
\* route.updateAverageTime.
RouteFound(r) ==
  /\ deliver[r].pc = "findRoute"
  /\ deliver' = [deliver EXCEPT
                   ![r] = IF deliver[r].order.assignedRoute \in DOMAIN routeDb
                          THEN [deliver[r] EXCEPT
                                  !.pc    = "saveRoute",
                                  !.route = UpdateAverageTime(routeDb[deliver[r].order.assignedRoute],
                                                              Val(deliver[r].actualTimeMinutes))]
                          ELSE [deliver[r] EXCEPT !.pc = "populate"]]
  /\ deliverResponse' = NoDeliverResponse
  /\ UNCHANGED <<orderDb, routeDb>>
  /\ UNCHANGED <<httpVars, engineVars, methodVars>>

\* The save of updateAverageTime resolves (line 328): the two paths it set
\* are written; line 332.
RouteSaved(r) ==
  /\ deliver[r].pc = "saveRoute"
  /\ routeDb' = [routeDb EXCEPT
                   ![deliver[r].route.routeId].totalCompletions      = deliver[r].route.totalCompletions,
                   ![deliver[r].route.routeId].averageCompletionTime = deliver[r].route.averageCompletionTime]
  /\ deliver' = [deliver EXCEPT ![r].pc = "populate"]
  /\ deliverResponse' = NoDeliverResponse
  /\ UNCHANGED orderDb
  /\ UNCHANGED <<httpVars, engineVars, methodVars>>

\* order.populate resolves (line 332): lines 334-343.
Populated(r) ==
  /\ deliver[r].pc = "populate"
  /\ DeliverReturn(r, 200, DeliveredMessage, Some(CalculateDeliveryBonus(deliver[r].order)))
  /\ UNCHANGED <<orderDb, routeDb>>
  /\ UNCHANGED <<httpVars, engineVars, methodVars>>

\* An awaited promise rejects: the catch block, lines 344-351.
DeliverCatch(r) ==
  /\ deliver[r].pc # "idle"
  /\ DeliverReturn(r, 500, DeliverFailedMessage, None)
  /\ UNCHANGED <<orderDb, routeDb>>
  /\ UNCHANGED <<httpVars, engineVars, methodVars>>

\* Time passes.
DeliverTick ==
  /\ now < MaxClock
  /\ now' = now + 1
  /\ deliverResponse' = NoDeliverResponse
  /\ UNCHANGED <<orderDb, routeDb, deliver>>
  /\ UNCHANGED <<controllerVars, engineVars, methodVars>>

DeliverNext ==
  \/ \E r \in DeliverReq : DeliverStart(r)
  \/ \E r \in DeliverReq : OrderFound(r)
  \/ \E r \in DeliverReq : OrderSaved(r)
  \/ \E r \in DeliverReq : FeedbackSaved(r)
  \/ \E r \in DeliverReq : RouteFound(r)
  \/ \E r \in DeliverReq : RouteSaved(r)
  \/ \E r \in DeliverReq : Populated(r)
  \/ \E r \in DeliverReq : DeliverCatch(r)
  \/ DeliverTick

DeliverSpec == DeliverInit /\ [][DeliverNext]_vars

\* ================================================================ claims
InBody(r) == pc[r] # "idle"

ValidBody(b) ==
  /\ b.numberOfDrivers # None /\ Val(b.numberOfDrivers) \in 1..50
  /\ b.maxHoursPerDriver # None /\ Val(b.maxHoursPerDriver) \in 1..24

\* C1: at most one request at a time is between setting simulationInProgress
\* and clearing it; while a request is there the flag is set.
C1_MutualExclusion ==
  /\ \A r, q \in Req : InBody(r) /\ InBody(q) => r = q
  /\ \A r \in Req : InBody(r) => simulationInProgress

\* C2: a request with valid parameters that arrives while the flag is set
\* is answered 409 at once, issues no query, and changes neither the flag,
\* nor the cache, nor anything of the run in progress.
C2_ConflictRejected ==
  [][\A r \in Req : \A b \in Bodies :
       (simulationInProgress /\ ValidBody(b) /\ HandleRun(r, b))
         => /\ response' = Json(r, 409, ConflictMessage)
            /\ issued' = "none"
            /\ UNCHANGED <<simulationInProgress, simulationResults, pc, body,
                           availableDrivers, run, lastCompleted>>]_vars

\* The 409 was sent while a run that has assigned an order awaits its result.
C2_Witness ==
  \E r, q \in Req :
    /\ r # q
    /\ response = Json(q, 409, ConflictMessage)
    /\ pc[r] = "awaitPerform"
    /\ run[r].results.totalOrders > 0
    /\ simulationInProgress

\* C3: a flag that is set is eventually cleared, whatever way the request
\* that set it ends.
C3_FlagEventuallyCleared == simulationInProgress ~> ~simulationInProgress

\* A request ended in the catch block after an earlier run succeeded, and
\* the flag is clear.
C3_Witness ==
  /\ response.status = 500
  /\ ~simulationInProgress
  /\ simulationResults # Null

\* C4: a request whose driver query returned no driver ends with the
\* no-drivers rejection, or with the 500 of the catch block, and in both
\* cases the flag is false when it has ended; every request that ends in the
\* catch block leaves the flag false.
C4_NoDriversRejected ==
  [][\A r \in Req :
       /\ (pc[r] = "awaitOrders" /\ Len(availableDrivers[r]) = 0 /\ pc'[r] = "idle")
            => /\ ~simulationInProgress'
               /\ \/ response' = Json(r, 400, NoDriversMessage)
                  \/ response' = Json(r, 500, FailedMessage)
       /\ (\E pending \in SUBSET OrderIds :
             OrdersResolved(r, FindPendingOrders(pending)) /\ Len(availableDrivers[r]) = 0)
            => response' = Json(r, 400, NoDriversMessage)
       /\ (InBody(r) /\ response' = Json(r, 500, FailedMessage))
            => ~simulationInProgress']_vars

\* The no-drivers rejection was sent and the flag is clear.
C4_Witness ==
  /\ response.status = 400
  /\ response.message = NoDriversMessage
  /\ ~simulationInProgress

\* C5 as stated: the flag is never set while a request that meets no
\* pending order is handled; in particular it is clear in the state the
\* rejection is sent from.
C5_FlagNeverSetForNoOrders ==
  [][\A r \in Req :
       (pc[r] = "awaitOrders" /\ response' = Json(r, 400, NoOrdersMessage))
         => ~simulationInProgress]_vars

\* C5 as amended: a request sets the flag before it issues its queries; a
\* request that found a driver and meets no pending order is rejected with
\* the no-orders message, the flag is false afterwards and the cache is
\* unchanged.
C5_NoOrdersRejected ==
  [][\A r \in Req :
       /\ (pc[r] = "idle" /\ pc'[r] = "awaitDrivers")
            => simulationInProgress' /\ issued' = "Driver.find"
       /\ (OrdersResolved(r, <<>>) /\ Len(availableDrivers[r]) > 0)
            => /\ response' = Json(r, 400, NoOrdersMessage)
               /\ ~simulationInProgress'
               /\ UNCHANGED simulationResults]_vars

\* The no-orders rejection was sent and the flag is clear.
C5_Witness ==
  /\ response.status = 400
  /\ response.message = NoOrdersMessage
  /\ ~simulationInProgress

\* C6: a body whose numberOfDrivers is missing or outside 1..50, or whose
\* maxHoursPerDriver is missing or outside 1..24, is answered with the 400
\* message of the first field at fault; no query is issued and nothing but
\* the response changes, whether or not a run is in progress.
C6_InvalidParamsRejected ==
  [][\A r \in Req : \A b \in Bodies :
       (~ValidBody(b) /\ HandleRun(r, b))
         => /\ response' =
                 Json(r, 400,
                      IF b.numberOfDrivers = None \/ Val(b.numberOfDrivers) \notin 1..50
                      THEN InvalidDriversMessage ELSE InvalidHoursMessage)
            /\ issued' = "none"
            /\ UNCHANGED <<simulationInProgress, simulationResults, pc, body,
                           availableDrivers, run, lastCompleted>>]_vars

\* The hours message was sent while a run is in progress.
C6_Witness ==
  /\ response.status = 400
  /\ response.message = InvalidHoursMessage
  /\ simulationInProgress
  /\ simulationResults # Null

\* C7: a request that ends in a failure leaves the cache as it was; the
\* cache changes only when a run ends with 200, and then to the result of
\* the whole of performDeliverySimulation on that run's drivers and orders.
C7_FailedRunKeepsCache ==
  [][/\ response'.status \in {400, 409, 500} => UNCHANGED simulationResults
     /\ simulationResults' # simulationResults
          => \E r \in Req :
               /\ pc[r] = "awaitPerform"
               /\ response' = Json(r, 200, SuccessMessage)
               /\ simulationResults'.results =
                    PerformDeliverySimulation(availableDrivers[r], run[r].sortedOrders,
                                              run[r].maxHoursPerDriver,
                                              run[r].simulationStartTime)]_vars

\* A run failed after an earlier run had cached deliveries.
C7_Witness ==
  /\ response.status = 500
  /\ simulationResults # Null
  /\ simulationResults.results.totalOrders > 0

\* C8: a status query returns the flag and the result of the last run that
\* completed (null before the first), and changes neither.
C8_StatusReportsLastCompleted ==
  [][statusResponse' # Null
       => /\ statusResponse' = [inProgress  |-> simulationInProgress,
                                lastResults |-> lastCompleted]
          /\ UNCHANGED <<simulationInProgress, simulationResults>>]_vars

\* A status was sent while a run holding a delivery of its own is suspended
\* mid-loop and an earlier result is cached.
C8_Witness ==
  /\ statusResponse # Null
  /\ statusResponse.inProgress
  /\ statusResponse.lastResults # Null
  /\ \E r \in Req : pc[r] = "awaitDelivery" /\ run[r].results.totalOrders > 0

RECURSIVE SumTimeSpent(_)
SumTimeSpent(assignedOrders) ==
  IF assignedOrders = <<>> THEN 0
  ELSE Head(assignedOrders).timeSpent + SumTimeSpent(Tail(assignedOrders))

\* C9: a driver state's currentHours is the driver's currentShiftHours plus
\* the time spent on the orders assigned to it; it is at most
\* maxHoursPerDriver once an order is assigned; a driver that starts above
\* maxHoursPerDriver gets no order.
C9_HoursWithinBudget ==
  simRun # NoRun =>
    \A i \in DOMAIN simRun.driverStates :
      LET driverState == simRun.driverStates[i]
          budget      == simInput.maxHoursPerDriver * 60
      IN  /\ driverState.currentHours =
               driverState.driver.currentShiftHours + SumTimeSpent(driverState.assignedOrders)
          /\ Len(driverState.assignedOrders) > 0 => driverState.currentHours <= budget
          /\ driverState.driver.currentShiftHours > budget
               => Len(driverState.assignedOrders) = 0 /\ simRun.bestDriver # i

\* The run is over: a driver got two orders, an order with a route was left
\* out, and a driver that started above the budget is among the drivers.
C9_Witness ==
  /\ simPc = "returned"
  /\ \E i \in DOMAIN simRun.driverStates : Len(simRun.driverStates[i].assignedOrders) >= 2
  /\ simRun.results.totalOrders < Len(simRun.sortedOrders)
  /\ \E i \in DOMAIN simRun.driverStates :
       simRun.driverStates[i].driver.currentShiftHours > simInput.maxHoursPerDriver * 60

PositionOf(orders, orderId) == CHOOSE i \in DOMAIN orders : orders[i].orderId = orderId

ClaimedWeight(priority) ==
  IF priority = "urgent" THEN 4
  ELSE IF priority = "high" THEN 3
  ELSE IF priority = "low" THEN 1
  ELSE 2

C11_BonusAtLeastMinus500 ==
  (subject # Null /\ subject.kind = "Order" /\ returned # None) =>
    /\ Val(returned) >= -500 * 50
    /\ (subject.isHighValue /\ ~(subject.status = "delivered" /\ IsLate(subject)))
          => Val(returned) >= subject.valueRs
    /\ (subject.isHighValue /\ subject.status = "delivered" /\ ~IsLate(subject))
          => Val(returned) = subject.valueRs + 100 * 50

\* An order of low value delivered more than ten hours late got -500, and
\* not the 50 per hour.
C11_Witness ==
  /\ subject # Null /\ subject.kind = "Order" /\ returned # None
  /\ subject.status = "delivered"
  /\ ~subject.isHighValue
  /\ subject.deliveryTimestamp # None
  /\ Val(subject.deliveryTimestamp) - subject.scheduledDeliveryTime > 10 * 60
  /\ Val(returned) = -500 * 50

\* C12: getFatigueFactor is 1.0 up to 4 hours, 1.1 above 4 and up to 8, 1.3
\* above 8 and up to 12, 1.5 above 12 (bounds inclusive), and no driver
\* with fewer hours has a higher factor.
C12_FatigueSteps ==
  (subject # Null /\ subject.kind = "Driver" /\ returned # None) =>
    LET hours == subject.currentShiftHours
    IN  /\ hours <= 4 * 60 => Val(returned) = 10
        /\ (hours > 4 * 60 /\ hours <= 8 * 60) => Val(returned) = 11
        /\ (hours > 8 * 60 /\ hours <= 12 * 60) => Val(returned) = 13
        /\ hours > 12 * 60 => Val(returned) = 15
        /\ \A fewer \in ShiftMinutes :
             fewer <= hours
               => GetFatigueFactor([kind |-> "Driver", currentShiftHours |-> fewer])
                    <= Val(returned)

\* A driver at exactly 8 hours got 1.1.
C12_Witness ==
  /\ subject # Null /\ subject.kind = "Driver" /\ returned # None
  /\ subject.currentShiftHours = 8 * 60
  /\ Val(returned) = 11

\* C13: a step that writes an order document and leaves it 'delivered' starts
\* from an order that is 'in-progress'; a deliver request that finds the
\* order in another status is answered 400 and changes neither the order
\* nor the route.
C13_DeliveredOnlyFromInProgress ==
  [][\A i \in DeliverOrderIds :
       /\ (orderDb'[i] # orderDb[i] /\ orderDb'[i].status = "delivered")
            => orderDb[i].status = "in-progress"
       /\ \A r \in DeliverReq :
            (deliver[r].pc = "findOrder" /\ deliver[r].id = i /\ deliver'[r].pc = "idle"
               /\ orderDb[i].status # "in-progress" /\ deliverResponse'.status # 500)
              => /\ deliverResponse' = DeliverJson(r, 400, NotInProgressMessage, None)
                 /\ UNCHANGED <<orderDb, routeDb>>]_vars

\* C14: when performDeliverySimulation has returned, the driver document
\* each driver state refers to has the currentShiftHours it was called with,
\* every order document of the (sorted in place) orders array has the
\* status, assignedDriver and deliveryTimestamp it was called with and its
\* route the totalCompletions and averageCompletionTime it was called with,
\* and a second call on these documents with the same budget and start
\* time assigns the same orders to the same drivers.
C14_RunLeavesDocuments ==
  simPc = "returned" =>
    /\ \A i \in DOMAIN simRun.driverStates :
         /\ simRun.driverStates[i].driver._id = simInput.drivers[i]._id
         /\ simRun.driverStates[i].driver.currentShiftHours
              = simInput.drivers[i].currentShiftHours
    /\ Len(simRun.sortedOrders) = Len(simInput.orders)
    /\ \A i \in DOMAIN simRun.sortedOrders :
         \E j \in DOMAIN simInput.orders :
           LET after  == simRun.sortedOrders[i]
               before == simInput.orders[j]
           IN  /\ after.orderId = before.orderId
               /\ after.status = before.status
               /\ after.assignedDriver = before.assignedDriver
               /\ after.deliveryTimestamp = before.deliveryTimestamp
               /\ (before.assignedRoute = Null) = (after.assignedRoute = Null)
               /\ before.assignedRoute # Null =>
                    /\ after.assignedRoute.totalCompletions
                         = before.assignedRoute.totalCompletions
                    /\ after.assignedRoute.averageCompletionTime
                         = before.assignedRoute.averageCompletionTime
    /\ LET Assignment(results) ==
              [i \in DOMAIN results.orderResults |->
                 <<results.orderResults[i].orderId, results.orderResults[i].driverId>>]
           second == PerformDeliverySimulation(
                       [i \in DOMAIN simRun.driverStates |-> simRun.driverStates[i].driver],
                       simRun.sortedOrders, simInput.maxHoursPerDriver, simInput.startTime)
       IN  Assignment(second) = Assignment(simRun.results)

\* A run has returned that reordered the orders array, assigned two orders
\* and moved a driver state's hours past the hours of its driver document.
C14_Witness ==
  /\ simPc = "returned"
  /\ simRun.sortedOrders # simInput.orders
  /\ Len(simRun.results.orderResults) >= 2
  /\ \E i \in DOMAIN simRun.driverStates :
       simRun.driverStates[i].currentHours > simRun.driverStates[i].driver.currentShiftHours

C16_FatigueFromSimulatedHours ==
  (simPc = "awaitDelivery" /\ simRun.deliveryResult # None) =>
    LET result      == Val(simRun.deliveryResult)
        route       == simRun.sortedOrders[simRun.idx].assignedRoute
        driverState == simRun.driverStates[simRun.bestDriver]
        hours       == driverState.currentHours
        fatigue     == IF hours <= 4 * 60 THEN 10
                       ELSE IF hours <= 8 * 60 THEN 11
                       ELSE IF hours <= 12 * 60 THEN 13
                       ELSE 15
    IN  /\ result.fatigueFactor = fatigue
        /\ hours + GetEstimatedTime(route, fatigue) <= simRun.maxHoursPerDriver * 60

\* C17: an order with a route is passed over only when no driver state is
\* within the hours budget for it.  When the loop is suspended or has ended,
\* the orders passed over since the last assignment were processed with the
\* driver states as they are now; none of these states was eligible for any
\* such order that has a route.
C17_DroppedOnlyWhenNoneEligible ==
  simPc \in {"awaitDelivery", "returned"} =>
    \A i \in DOMAIN simRun.sortedOrders :
      LET order    == simRun.sortedOrders[i]
          Assigned(j) == \E k \in DOMAIN simRun.results.orderResults :
                           simRun.results.orderResults[k].orderId
                             = simRun.sortedOrders[j].orderId
      IN  (/\ i < simRun.idx
           /\ \A j \in i..(simRun.idx - 1) : ~Assigned(j)
           /\ order.assignedRoute # Null)
            => \A d \in DOMAIN simRun.driverStates :
                 simRun.driverStates[d].currentHours
                   + GetEstimatedTime(order.assignedRoute,
                                      GetFatigueFactor(simRun.driverStates[d].driver))
                   > simRun.maxHoursPerDriver * 60

\* C18: the driver state findOptimalDriver returns is within the hours
\* budget, no eligible driver state has a higher score, and every eligible
\* driver state before it in the list has a strictly lower score.
C18_BestEligibleFirstOnTie ==
  (simPc = "awaitDelivery" /\ simRun.deliveryResult # None) =>
    LET order == simRun.sortedOrders[simRun.idx]
        route == order.assignedRoute
        best  == simRun.bestDriver
        Eligible(d) ==
          simRun.driverStates[d].currentHours
            + GetEstimatedTime(route, GetFatigueFactor(simRun.driverStates[d].driver))
            <= simRun.maxHoursPerDriver * 60
        \* the score x 60: rating x 10, fatigue x 10, hours in minutes
        Score(d) ==
          LET driverState == simRun.driverStates[d]
              familiarity == IF route.totalCompletions * 6 < 10 * 60
                             THEN route.totalCompletions * 6 ELSE 10 * 60
          IN  driverState.driver.rating * 2 * 60
              - (GetFatigueFactor(driverState.driver) - 10) * 3 * 60
              + (8 * 60 - driverState.currentHours) * 5
              + familiarity
              - (IF order.isHighValue /\ driverState.driver.rating < 45 THEN 20 * 60 ELSE 0)
    IN  /\ best \in DOMAIN simRun.driverStates
        /\ Eligible(best)
        /\ \A d \in DOMAIN simRun.driverStates :
             /\ Eligible(d) => Score(best) >= Score(d)
             /\ (Eligible(d) /\ d < best) => Score(best) > Score(d)

\* The first of two eligible driver states with equal scores was returned.
C18_Witness ==
  /\ simPc = "awaitDelivery" /\ simRun.deliveryResult # None
  /\ simRun.bestDriver = 1
  /\ Len(simRun.driverStates) >= 2
  /\ simRun.driverStates[2].currentHours = simRun.driverStates[1].currentHours
  /\ simRun.driverStates[2].driver.rating = simRun.driverStates[1].driver.rating
  /\ simRun.driverStates[2].driver.currentShiftHours
       = simRun.driverStates[1].driver.currentShiftHours
  /\ simRun.driverStates[2].currentHours + Val(simRun.deliveryResult).timeSpent
       <= simRun.maxHoursPerDriver * 60

\* C19: an order without an assigned route is in no delivery result and in
\* no driver state's assignedOrders; the run returns with the driver states
\* and delivery results of the same call without these orders, and the
\* completion rate in the efficiency score is taken over all the orders of
\* the call, these included.
C19_NoRouteSkipped ==
  LET NoRoute(orderId) == \E j \in DOMAIN simInput.orders :
                            /\ simInput.orders[j].orderId = orderId
                            /\ simInput.orders[j].assignedRoute = Null
  IN  /\ simPc # "call" =>
           /\ \A k \in DOMAIN simRun.results.orderResults :
                ~NoRoute(simRun.results.orderResults[k].orderId)
           /\ \A d \in DOMAIN simRun.driverStates :
                \A k \in DOMAIN simRun.driverStates[d].assignedOrders :
                  ~NoRoute(simRun.driverStates[d].assignedOrders[k].orderId)
      /\ simPc = "returned" =>
           LET routed  == SelectSeq(simInput.orders, LAMBDA o : o.assignedRoute # Null)
               without == RunLoop(PerformInit(simInput.drivers, routed,
                                              simInput.maxHoursPerDriver, simInput.startTime))
               results == simRun.results
               \* the three rates as fractions of 100
               d1 == Len(simInput.orders)
               n1 == results.totalOrders
               d2 == IF results.totalOrders > 0 THEN results.totalOrders ELSE 1
               n2 == IF results.totalOrders > 0 THEN results.onTimeDeliveries ELSE 0
               d3 == IF results.driversUsed > 0
                     THEN results.driversUsed * simInput.maxHoursPerDriver * 60 ELSE 1
               n3 == IF results.driversUsed > 0
                     THEN results.optimizationDetails.totalTime ELSE 0
               \* 100 x (0.4 completionRate + 0.4 onTimeRate + 0.2 utilizationRate)
               num == 4000 * n1 * d2 * d3 + 4000 * n2 * d1 * d3 + 2000 * n3 * d1 * d2
               den == d1 * d2 * d3
           IN  /\ simRun.driverStates = without.driverStates
               /\ results.orderResults = without.results.orderResults
               /\ 2 * den * results.efficiencyScore - den <= 2 * num
               /\ 2 * num < 2 * den * results.efficiencyScore + den

\* A run has returned that was called with an order without a route and
\* another order, which it assigned.
C19_Witness ==
  /\ simPc = "returned"
  /\ \E j \in DOMAIN simInput.orders : simInput.orders[j].assignedRoute = Null
  /\ simRun.results.totalOrders >= 1
  /\ simRun.results.totalOrders < Len(simInput.orders)

\* C20: the step that applies a delivery result adds, to the chosen driver
\* state, timeSpent to currentHours and to currentTime, the route distance to
\* totalDistance and the delivery's driver earnings to totalEarnings, appends
\* the result to its assignedOrders and leaves every other driver state as
\* it was; when the run has returned, the totalEarnings of each performance
\* entry is a number, the sum of the driver earnings of that driver's
\* assigned deliveries.
C20_DriverStateUpdated ==
  [][/\ (simPc = "awaitDelivery" /\ simRun.deliveryResult # None) =>
          LET result == Val(simRun.deliveryResult)
              b      == simRun.bestDriver
              before == simRun.driverStates[b]
              after  == simRun'.driverStates[b]
          IN  /\ after.driver = before.driver
              /\ after.assignedOrders = Append(before.assignedOrders, result)
              /\ after.currentHours = before.currentHours + result.timeSpent
              /\ after.currentTime = before.currentTime + result.timeSpent
              /\ after.totalDistance = before.totalDistance + result.distance
              /\ before.totalEarnings # NaN
              /\ after.totalEarnings
                   = Number(Val(before.totalEarnings) + result.driverEarnings)
              /\ \A d \in DOMAIN simRun.driverStates :
                   d # b => simRun'.driverStates[d] = simRun.driverStates[d]
     /\ simPc' = "returned" =>
          \A k \in DOMAIN simRun'.results.driverPerformance :
            LET performance == simRun'.results.driverPerformance[k]
                Earned[n \in 0..Len(simRun'.results.orderResults)] ==
                  IF n = 0 THEN 0
                  ELSE Earned[n - 1]
                       + (IF simRun'.results.orderResults[n].driverId = performance.driverId
                          THEN simRun'.results.orderResults[n].driverEarnings ELSE 0)
            IN  performance.totalEarnings
                  = Number(Earned[Len(simRun'.results.orderResults)])]_vars

\* C21: the delivery time of every delivery result is the simulation start
\* time plus the timeSpent of the deliveries assigned before it to the same
\* driver in this run plus its own timeSpent; isOnTime is true exactly when
\* that time is not after the order's scheduledDeliveryTime; and
\* onTimeDeliveries and lateDeliveries count the results by this flag.
C21_PerDriverClock ==
  simPc \in {"awaitDelivery", "returned"} =>
    LET orderResults == simRun.results.orderResults
        Earlier(k) == {n \in 1..(k - 1) : orderResults[n].driverId = orderResults[k].driverId}
        Spent[k \in DOMAIN orderResults, n \in 0..Len(orderResults)] ==
          IF n = 0 THEN 0
          ELSE Spent[k, n - 1] + (IF n \in Earlier(k) THEN orderResults[n].timeSpent ELSE 0)
        Scheduled(orderId) ==
          (CHOOSE o \in {simInput.orders[j] : j \in DOMAIN simInput.orders} :
             o.orderId = orderId).scheduledDeliveryTime
    IN  /\ \A k \in DOMAIN orderResults :
             /\ orderResults[k].actualDeliveryTime
                  = simInput.startTime + Spent[k, Len(orderResults)] + orderResults[k].timeSpent
             /\ orderResults[k].isOnTime
                  <=> (orderResults[k].actualDeliveryTime <= Scheduled(orderResults[k].orderId))
        /\ simRun.results.onTimeDeliveries
             = Cardinality({k \in DOMAIN orderResults : orderResults[k].isOnTime})
        /\ simRun.results.lateDeliveries
             = Cardinality({k \in DOMAIN orderResults : ~orderResults[k].isOnTime})

\* A driver's second delivery is late only because of the time its first
\* delivery took: timed from the start it would have been on time.
C21_Witness ==
  /\ simPc = "returned"
  /\ \E k \in DOMAIN simRun.results.orderResults :
       LET result == simRun.results.orderResults[k]
       IN  /\ ~result.isOnTime
           /\ simInput.startTime + result.timeSpent <= result.scheduledTime
           /\ \E n \in 1..(k - 1) : simRun.results.orderResults[n].driverId = result.driverId
  /\ simRun.results.onTimeDeliveries >= 1
  /\ simRun.results.lateDeliveries >= 1

\* C22: the bonus of a simulated delivery, and the bonus in its profit, is
\* calculateDeliveryBonus of the order taken as delivered at the simulated
\* delivery time: 2% of a high value, plus 100 when the delivery is on
\* time, less 50 per started hour when it is late, not below -500.
C22_BonusAsIfDelivered ==
  (simPc = "awaitDelivery" /\ simRun.deliveryResult # None) =>
    LET result    == Val(simRun.deliveryResult)
        order     == simRun.sortedOrders[simRun.idx]
        driver    == simRun.driverStates[simRun.bestDriver].driver
        delivered == [order EXCEPT !.status = "delivered",
                                   !.deliveryTimestamp = Some(result.actualDeliveryTime)]
        \* in 50ths of a rupee
        bonus     == CalculateDeliveryBonus(delivered)
        \* in 300ths of a rupee
        profit    == order.valueRs * 30
                     - (CalculateFuelCost(order.assignedRoute) * 3
                        + result.timeSpent * driver.hourlyRate * 5)
                     + bonus * 6
    IN  /\ result.isOnTime => bonus >= 100 * 50
        /\ result.deliveryBonus = Round(bonus, 50)
        /\ result.profit = Round(profit, 300)

\* C23: the totalFuelCost and totalProfit of a returned run are the sums,
\* over the simulated deliveries, of the fuel costs distance * fuelCostPerKm
\* + tollCharges and of the profits valueRs * 0.1 - (fuelCost +
\* driverEarnings) + bonus, each summed unrounded and rounded once.
C23_TotalsRoundedOnce ==
  simPc = "returned" =>
    LET orderResults == simRun.results.orderResults
        Order(k)  == CHOOSE o \in {simInput.orders[j] : j \in DOMAIN simInput.orders} :
                       o.orderId = orderResults[k].orderId
        Driver(k) == CHOOSE d \in {simInput.drivers[j] : j \in DOMAIN simInput.drivers} :
                       d._id = orderResults[k].driverId
        \* in 300ths of a rupee
        Fuel(k)   == (Order(k).assignedRoute.distance * Order(k).assignedRoute.fuelCostPerKm
                      + Order(k).assignedRoute.tollCharges * 100) * 3
        Profit(k) == Order(k).valueRs * 30
                     - (Fuel(k) + orderResults[k].timeSpent * Driver(k).hourlyRate * 5)
                     + CalculateDeliveryBonus(Order(k)) * 6
        SumFuel[n \in 0..Len(orderResults)] ==
          IF n = 0 THEN 0 ELSE SumFuel[n - 1] + Fuel(n)
        SumProfits[n \in 0..Len(orderResults)] ==
          IF n = 0 THEN 0 ELSE SumProfits[n - 1] + Profit(n)
    IN  /\ simRun.results.totalFuelCost = Round(SumFuel[Len(orderResults)], 300)
        /\ simRun.results.totalProfit = Round(SumProfits[Len(orderResults)], 300)

\* C24: in a returned result driversUsed is the number of driver states
\* with at least one assigned order, driverPerformance has one entry for
\* each of them, in the order of the drivers of the call, and no other
\* entry, and the ordersCompleted of an entry is the length of that
\* driver state's assignedOrders.
C24_DriversUsedAndPerformance ==
  simPc = "returned" =>
    LET used        == SelectSeq(simRun.driverStates, LAMBDA ds : Len(ds.assignedOrders) >= 1)
        performance == simRun.results.driverPerformance
    IN  /\ simRun.results.driversUsed
             = Cardinality({d \in DOMAIN simRun.driverStates :
                              simRun.driverStates[d].assignedOrders # <<>>})
        /\ Len(performance) = Len(used)
        /\ \A k \in DOMAIN performance :
             /\ performance[k].driverId = used[k].driver._id
             /\ performance[k].ordersCompleted = Len(used[k].assignedOrders)
        /\ \A d \in DOMAIN simRun.driverStates :
             simRun.driverStates[d].driver = simInput.drivers[d]

\* A run of three drivers has returned: one took two orders, one took one
\* and one took none.
C24_Witness ==
  /\ simPc = "returned"
  /\ Len(simRun.driverStates) = 3
  /\ Len(simRun.results.driverPerformance) = 2
  /\ \E k \in DOMAIN simRun.results.driverPerformance :
       simRun.results.driverPerformance[k].ordersCompleted = 2

\* C25: the efficiencyScore of a returned run is 0.4 completionRate + 0.4
\* onTimeRate + 0.2 utilizationRate to 2 decimals, where completionRate is
\* the assigned orders over the orders of the call, onTimeRate the on-time
\* deliveries over the assigned orders (0 when there is none) and
\* utilizationRate the minutes spent over driversUsed * maxHoursPerDriver *
\* 60 (0 when no driver was used), each times 100; a run that assigns no
\* order returns with the score 0.
C25_EfficiencyScore ==
  simPc = "returned" =>
    LET orderResults == simRun.results.orderResults
        input        == Len(simInput.orders)
        assigned     == Len(orderResults)
        onTime       == Cardinality({k \in DOMAIN orderResults : orderResults[k].isOnTime})
        driversUsed  == Cardinality({orderResults[k].driverId : k \in DOMAIN orderResults})
        Minutes[n \in 0..assigned] ==
          IF n = 0 THEN 0 ELSE Minutes[n - 1] + orderResults[n].timeSpent
        capacity     == driversUsed * simInput.maxHoursPerDriver * 60
        \* the rates as fractions
        onTimeNum    == IF assigned = 0 THEN 0 ELSE onTime
        onTimeDen    == IF assigned = 0 THEN 1 ELSE assigned
        usedNum      == IF driversUsed = 0 THEN 0 ELSE Minutes[assigned]
        usedDen      == IF driversUsed = 0 THEN 1 ELSE capacity
        den          == input * onTimeDen * usedDen
        \* the weighted sum of the three rates, times den
        sum          == 40 * assigned * onTimeDen * usedDen
                        + 40 * onTimeNum * input * usedDen
                        + 20 * usedNum * input * onTimeDen
        \* the score is held in hundredths
        score        == simRun.results.efficiencyScore
    IN  /\ 2 * (den * score - 100 * sum) <= den
        /\ 2 * (100 * sum - den * score) < den
        /\ assigned = 0 => score = 0

\* A run has returned that assigned some of its orders, delivered one on
\* time and one late, and whose score is not a whole number.
C25_Witness ==
  /\ simPc = "returned"
  /\ simRun.results.totalOrders < Len(simInput.orders)
  /\ simRun.results.onTimeDeliveries >= 1
  /\ simRun.results.lateDeliveries >= 1
  /\ simRun.results.efficiencyScore % 100 # 0

\* C27: the flag is cleared only by the request that set it: a step in
\* which the flag goes from true to false ends a request that was past line
\* 40, and a request that is answered in the step that started it (it never
\* set the flag) leaves the flag as it is.
C27_ClearedOnlyByOwner ==
  [][/\ (simulationInProgress /\ ~simulationInProgress')
          => \E r \in Req : pc[r] # "idle" /\ pc'[r] = "idle"
     /\ \A r \in Req :
          (pc[r] = "idle" /\ response'.req = r) => UNCHANGED simulationInProgress]_vars

\* C26: the loop only moves forward.  In every step of a run the position
\* in the sorted queue grows and the queue stays as it is, the delivery
\* results and each driver state's assignedOrders keep what they hold and
\* at most get one result appended, that result is for the order the loop
\* was suspended at (no order passed before it, assigned or dropped, is
\* taken up again), and the run returns with the position past the queue.
C26_NoBacktracking ==
  [][(simPc = "awaitDelivery" /\ simRun.deliveryResult # None) =>
       LET IsPrefix(s, u) == Len(s) <= Len(u) /\ \A k \in DOMAIN s : u[k] = s[k]
           before == simRun.results.orderResults
           after  == simRun'.results.orderResults
       IN  /\ simRun'.idx > simRun.idx
           /\ simRun'.sortedOrders = simRun.sortedOrders
           /\ after = Append(before, Val(simRun.deliveryResult))
           /\ after[Len(after)].orderId = simRun.sortedOrders[simRun.idx].orderId
           /\ \A d \in DOMAIN simRun.driverStates :
                /\ IsPrefix(simRun.driverStates[d].assignedOrders,
                            simRun'.driverStates[d].assignedOrders)
                /\ Len(simRun'.driverStates[d].assignedOrders)
                     = Len(simRun.driverStates[d].assignedOrders)
                       + (IF d = simRun.bestDriver THEN 1 ELSE 0)
           /\ simPc' = "awaitDelivery" =>
                /\ simRun'.idx <= Len(simRun.sortedOrders)
                /\ Val(simRun'.deliveryResult).orderId
                     = simRun.sortedOrders[simRun'.idx].orderId
           /\ simPc' = "returned" => simRun'.idx = Len(simRun.sortedOrders) + 1]_vars

\* A run has returned that passed over an order and assigned two orders
\* that came after it in the queue.
C26_Witness ==
  /\ simPc = "returned"
  /\ \E i, j, k \in DOMAIN simRun.sortedOrders :
       LET Assigned(n) == \E m \in DOMAIN simRun.results.orderResults :
                            simRun.results.orderResults[m].orderId
                              = simRun.sortedOrders[n].orderId
       IN  i < j /\ j < k /\ ~Assigned(i) /\ Assigned(j) /\ Assigned(k)

\* C28: whenever the loop is suspended and when the run has returned, no
\* order has two delivery results, no order is in the assignedOrders of two
\* driver states or twice in those of one, every result is for an order of
\* the call, and totalOrders = the number of delivery results =
\* onTimeDeliveries + lateDeliveries = the number of assigned orders over
\* all driver states <= the number of orders of the call.
C28_EachOrderAtMostOnce ==
  simPc \in {"awaitDelivery", "returned"} =>
    LET orderResults == simRun.results.orderResults
        states       == simRun.driverStates
        Held[d \in 0..Len(states)] ==
          IF d = 0 THEN 0 ELSE Held[d - 1] + Len(states[d].assignedOrders)
    IN  /\ \A k, n \in DOMAIN orderResults :
             orderResults[k].orderId = orderResults[n].orderId => k = n
        /\ \A d, e \in DOMAIN states :
             \A k \in DOMAIN states[d].assignedOrders :
               \A n \in DOMAIN states[e].assignedOrders :
                 states[d].assignedOrders[k].orderId = states[e].assignedOrders[n].orderId
                   => (d = e /\ k = n)
        /\ \A k \in DOMAIN orderResults :
             \E j \in DOMAIN simInput.orders :
               simInput.orders[j].orderId = orderResults[k].orderId
        /\ simRun.results.totalOrders = Len(orderResults)
        /\ simRun.results.totalOrders
             = simRun.results.onTimeDeliveries + simRun.results.lateDeliveries
        /\ simRun.results.totalOrders = Held[Len(states)]
        /\ simRun.results.totalOrders <= Len(simInput.orders)

\* The loop is suspended with two results held by two driver states, one
\* on time and one late, and fewer results than orders.
C28_Witness ==
  /\ simPc = "awaitDelivery"
  /\ simRun.results.totalOrders = 2
  /\ simRun.results.onTimeDeliveries = 1
  /\ simRun.results.lateDeliveries = 1
  /\ \E d, e \in DOMAIN simRun.driverStates :
       d # e /\ Len(simRun.driverStates[d].assignedOrders) = 1
             /\ Len(simRun.driverStates[e].assignedOrders) = 1

\* C29: in a returned run the minutes spent on the orders assigned to one
\* driver state are at most maxHoursPerDriver * 60, so the utilisation is
\* at most 100; the assigned orders are at most the orders of the call and
\* the on-time deliveries at most the assigned orders, so the completion
\* and on-time rates are at most 100; the efficiencyScore and the
\* averageUtilization (both held in hundredths) lie between 0 and 100.
C29_RatesWithinRange ==
  simPc = "returned" =>
    LET results == simRun.results
        Spent(d) ==
          LET assignedOrders == simRun.driverStates[d].assignedOrders
              Sum[n \in 0..Len(assignedOrders)] ==
                IF n = 0 THEN 0 ELSE Sum[n - 1] + assignedOrders[n].timeSpent
          IN  Sum[Len(assignedOrders)]
    IN  /\ simInput.maxHoursPerDriver \in 1..24
        /\ \A d \in DOMAIN simRun.driverStates :
             /\ simInput.drivers[d].currentShiftHours >= 0
             /\ Spent(d) <= simInput.maxHoursPerDriver * 60
        /\ 0 <= results.totalOrders /\ results.totalOrders <= Len(simInput.orders)
        /\ 0 <= results.onTimeDeliveries /\ results.onTimeDeliveries <= results.totalOrders
        /\ 0 <= results.optimizationDetails.totalTime
        /\ results.optimizationDetails.totalTime
             <= results.driversUsed * simInput.maxHoursPerDriver * 60
        /\ results.efficiencyScore \in 0..(100 * 100)
        /\ results.optimizationDetails.averageUtilization \in 0..(100 * 100)

\* A run has returned in which one driver state took three orders.
C29_Witness ==
  /\ simPc = "returned"
  /\ \E d \in DOMAIN simRun.driverStates : Len(simRun.driverStates[d].assignedOrders) = 3
  /\ simRun.results.optimizationDetails.averageUtilization > 0
  /\ simRun.results.efficiencyScore > 50 * 100

\* C30: every save of a route by a deliver request raises totalCompletions
\* by one and sets averageCompletionTime to round((average * count +
\* actualTime) / (count + 1)) of the route as it is stored, with the
\* request's actual time; and a route has gained at most one completion for
\* each of its orders that is delivered.
C30_RouteCompletions ==
  [][\A i \in RouteIds :
       /\ \A r \in DeliverReq :
            (deliver[r].pc = "saveRoute" /\ deliver'[r].pc = "populate"
               /\ deliver[r].route.routeId = i)
              => /\ routeDb'[i].totalCompletions = routeDb[i].totalCompletions + 1
                 /\ LET totalTime == routeDb[i].averageCompletionTime
                                       * routeDb[i].totalCompletions
                                     + Val(deliver[r].actualTimeMinutes)
                        count     == routeDb[i].totalCompletions + 1
                    IN  /\ 2 * count * routeDb'[i].averageCompletionTime - count <= 2 * totalTime
                        /\ 2 * totalTime < 2 * count * routeDb'[i].averageCompletionTime + count
       /\ routeDb'[i].totalCompletions - StoredRoute(i).totalCompletions
            <= Cardinality({o \in DeliverOrderIds :
                              /\ orderDb'[o].assignedRoute = i
                              /\ orderDb'[o].status = "delivered"})]_vars

====
